---- MODULE Spec2Model ----
(***************************************************************************)
(* The 5-stage generation workflow of nexus-nebula-universe/apps/api:      *)
(* generate() / event_stream() in app/main.py, run_graph() and the graph   *)
(* of app/swarm/graph.py, and the stage functions and the fallback chain   *)
(* runner of app/swarm/nodes.py.                                           *)
(*                                                                         *)
(* The workflow state is the one mutable dict that generate() builds and   *)
(* that every stage mutates in place and returns, so `state`, the `out` of *)
(* a node_end event and `final_state` name the same object; the model      *)
(* keeps it in the variable `state`.  Each stage is called with the        *)
(* model_chain and api_keys_env that run_graph() lists for it, and the     *)
(* assignment of route_after_review to state["iterations"] is a write to   *)
(* that same dict.  A step of the model is the code between two awaits of  *)
(* a provider call or two frames of the event stream.                      *)
(***************************************************************************)
EXTENDS Integers, Sequences, FiniteSets, TLC

VARIABLES
    keys,        \* api_keys_env: key name -> key or None          (main.py _env_keys)
    state,       \* the SwarmState dict of the run                 (main.py 275-284)
    pc,          \* position of event_stream / the graph
    node,        \* the graph node being executed
    ci,          \* index of the for-loop of _try_models_one_shot
    last_err,    \* last_err of _try_models_one_shot
    calls,       \* acompletion calls made by the chain run of the current stage
    chain_out,   \* what the chain run of the current stage ended with
    exc,         \* the exception caught by event_stream (None before)
    events,      \* the SSE frames yielded by event_stream, in order
    project,     \* the project row: [status, swarm_state]         (_persist_project_state)
    saves,       \* the statuses written to the project row, in order
    artifacts,   \* the artifacts stored by _store_artifact
    swarm,       \* one HybridSwarm._swarm call: keys, tasks, results       (src/app.py)
    limiter,     \* the InMemoryRateLimiter: rpm, hits, and the clock  (rate_limit.py)
    pipeline     \* one GenerationPipeline.generate call and its AIRouter call
                 \*                                  (nexus_nebula/services/ai_pipeline.py)

vars == <<keys, state, pc, node, ci, last_err, calls, chain_out, exc, events,
          project, saves, artifacts, swarm, limiter, pipeline>>

\* The variables of the components the generation workflow does not touch.
others == <<swarm, limiter, pipeline>>

\* The variables of the generation workflow.
workflow == <<keys, state, pc, node, ci, last_err, calls, chain_out, exc, events,
              project, saves, artifacts>>

-----------------------------------------------------------------------------
(* Bounds of the model *)

\* Largest retry cap a run is started with (generate() always uses DefaultMaxIterations).
MaxCap == 2

-----------------------------------------------------------------------------
(* Program constants *)

DefaultMaxIterations == 2

\* How many image prompts node_design keeps.
MaxImagePrompts == 3

None == "None"

END == "__end__"

KeyNames == {"GROQ_API_KEY", "OPENROUTER_API_KEY", "GOOGLE_API_KEY"}

model_groq == [provider |-> "groq", name |-> "llama3-70b-8192"]
model_openrouter_claude == [provider |-> "openrouter", name |-> "anthropic/claude-3.5-sonnet"]
model_openrouter_gpt4o == [provider |-> "openrouter", name |-> "openai/gpt-4o"]
model_gemini == [provider |-> "gemini", name |-> "gemini-1.5-pro"]
model_ollama == [provider |-> "ollama", name |-> "llama3:8b"]

\* _model_chains(): the ordered model list of each role.
_model_chains ==
    [research |-> <<model_gemini, model_openrouter_gpt4o, model_groq, model_ollama>>,
     plan     |-> <<model_openrouter_claude, model_gemini, model_groq, model_ollama>>,
     code     |-> <<model_groq, model_openrouter_gpt4o, model_gemini, model_ollama>>,
     design   |-> <<model_openrouter_gpt4o, model_gemini, model_groq, model_ollama>>,
     review   |-> <<model_openrouter_claude, model_groq, model_gemini, model_ollama>>]

\* node_kwargs of run_graph(): the chain each node is called with.
node_kwargs ==
    [Researcher |-> _model_chains.research,
     Planner    |-> _model_chains.plan,
     Coder      |-> _model_chains.code,
     Designer   |-> _model_chains.design,
     Reviewer   |-> _model_chains.review]

Nodes == {"Researcher", "Planner", "Coder", "Designer", "Reviewer"}

\* Faulty variant of Edge: the Coder is wired to the Reviewer, past the Designer.
EdgeSkipsDesigner ==
    [Researcher |-> "Planner", Planner |-> "Coder", Coder |-> "Reviewer",
     Designer |-> "Reviewer"]

\* The unconditional edges of build_graph().
Edge ==
    [Researcher |-> "Planner", Planner |-> "Coder", Coder |-> "Designer",
     Designer |-> "Reviewer"]

-----------------------------------------------------------------------------
(* Values *)

\* An exception: its class and the tokens of its message.
NoErr == [type |-> "None", msg |-> <<>>]

\* repr(e) of an exception, and repr(None).
Repr(e) == IF e = NoErr THEN <<"None">> ELSE <<e.type, "(">> \o e.msg \o <<")">>

\* Faulty variant of Str: repr(e) is sent instead of str(e).
StrAsRepr(e) == <<e.type, "(">> \o e.msg \o <<")">>

\* str(e): the message the exception was built with.
Str(e) == e.msg

\* The exception a failed completion of model m raises (kind: the class of failure).
CompletionError(m, kind) == [type |-> kind, msg |-> <<m.provider, "/", m.name>>]

RuntimeError(msg) == [type |-> "RuntimeError", msg |-> msg]

JSONDecodeError == [type |-> "JSONDecodeError", msg |-> <<"Expecting value">>]

AttributeError == [type |-> "AttributeError", msg |-> <<"object has no attribute 'get'">>]

\* d.get(k, default) on a dict modelled as a function.
DictGet(d, k, default) == IF k \in DOMAIN d THEN d[k] ELSE default

\* s.get(f, default) on the state: the optional keys present are listed in s.has.
Has(s, f) == f \in s.has

-----------------------------------------------------------------------------
(* Text: a provider's raw response is a sequence of tokens [t |-> kind, v |-> value]; *)
(* kinds: "{", "}", "ws" (whitespace), "prose", "members" (the members of a JSON     *)
(* object, v the parsed dict), "scalar" (a JSON value that is no object).            *)

Tok(kind) == [t |-> kind, v |-> <<>>]

Members(d) == [t |-> "members", v |-> d]

RECURSIVE LStrip(_)
LStrip(s) == IF s # <<>> /\ Head(s).t = "ws" THEN LStrip(Tail(s)) ELSE s

RECURSIVE RStrip(_)
RStrip(s) ==
    IF s # <<>> /\ s[Len(s)].t = "ws" THEN RStrip(SubSeq(s, 1, Len(s) - 1)) ELSE s

\* str.strip()
Strip(s) == RStrip(LStrip(s))

\* s.find(kind): 1-based index of the first token of that kind, 0 when there is none.
Find(s, kind) ==
    IF \E i \in 1..Len(s) : s[i].t = kind
    THEN CHOOSE i \in 1..Len(s) : s[i].t = kind /\ \A j \in 1..(i - 1) : s[j].t # kind
    ELSE 0

\* s.rfind(kind): 1-based index of the last token of that kind, 0 when there is none.
RFind(s, kind) ==
    IF \E i \in 1..Len(s) : s[i].t = kind
    THEN CHOOSE i \in 1..Len(s) : s[i].t = kind /\ \A j \in (i + 1)..Len(s) : s[j].t # kind
    ELSE 0

\* json.loads(s): a JSON document is one object or one scalar, whitespace allowed
\* around it; anything else raises JSONDecodeError.
json_loads(s) ==
    LET b == Strip(s) IN
    IF Len(b) = 3 /\ b[1].t = "{" /\ b[2].t = "members" /\ b[3].t = "}"
    THEN [ok |-> TRUE, isdict |-> TRUE, value |-> b[2].v]
    ELSE IF Len(b) = 2 /\ b[1].t = "{" /\ b[2].t = "}"
    THEN [ok |-> TRUE, isdict |-> TRUE, value |-> <<>>]
    ELSE IF Len(b) = 1 /\ b[1].t = "scalar"
    THEN [ok |-> TRUE, isdict |-> FALSE, value |-> <<>>]
    ELSE [ok |-> FALSE, isdict |-> FALSE, value |-> <<>>]

\* Faulty variant of _safe_json_loads: the stripped text is parsed as it is.
_safe_json_loads_whole_text(raw) == json_loads(Strip(raw))

_safe_json_loads(raw) ==
    LET s == Strip(raw)
        start == Find(s, "{")
        end == RFind(s, "}")
    IN  IF s # <<>> /\ s[1].t = "{" /\ s[Len(s)].t = "}"
        THEN json_loads(s)
        ELSE IF start # 0 /\ end # 0 /\ end > start
        THEN json_loads(SubSeq(s, start, end))
        ELSE json_loads(s)

-----------------------------------------------------------------------------
(* Provider client and fallback chain runner (swarm/nodes.py) *)

\* Faulty variant of ApiKeyFor: the gemini branch reads the OpenRouter key.
ApiKeyForWrongBranch(model, api_keys_env) ==
    IF model.provider = "groq" THEN api_keys_env["GROQ_API_KEY"]
    ELSE IF model.provider = "openrouter" THEN api_keys_env["OPENROUTER_API_KEY"]
    ELSE IF model.provider = "gemini" THEN api_keys_env["OPENROUTER_API_KEY"]
    ELSE None

\* _one_shot_completion: the api_key passed to acompletion for a model.
ApiKeyFor(model, api_keys_env) ==
    IF model.provider = "groq" THEN api_keys_env["GROQ_API_KEY"]
    ELSE IF model.provider = "openrouter" THEN api_keys_env["OPENROUTER_API_KEY"]
    ELSE IF model.provider = "gemini" THEN api_keys_env["GOOGLE_API_KEY"]
    ELSE None

\* The acompletion call _one_shot_completion makes for a model.
Completion(model, api_keys_env) ==
    [model |-> model, api_key |-> ApiKeyFor(model, api_keys_env), stream |-> FALSE]

\* One call as the log `calls` keeps it: the request, and what came back (the
\* exception raised, or the content returned).
CallRaised(request, e) == [request |-> request, raised |-> TRUE, err |-> e, out |-> <<>>]

CallReturned(request, out) ==
    [request |-> request, raised |-> FALSE, err |-> NoErr, out |-> out]

\* Faulty variant of LastErrAfter: only the first failure is remembered.
LastErrFirstOnly(prev, e) == IF prev = NoErr THEN e ELSE prev

\* last_err after the completion of a model raised the exception e.
LastErrAfter(prev, e) == e

\* Faulty variant of ChainReturn: the head of the list is reported as the winner.
ChainReturnHead(models, i, out) ==
    [status |-> "returned", err |-> NoErr, model |-> models[1], out |-> out]

\* _try_models_one_shot returning (m, out) in the iteration i of its loop.
ChainReturn(models, i, out) ==
    [status |-> "returned", err |-> NoErr, model |-> models[i], out |-> out]

\* _try_models_one_shot with the list exhausted.
ChainRaise(last) ==
    [status |-> "raised",
     err |-> RuntimeError(<<"All models failed. Last error: ">> \o Repr(last)),
     model |-> model_ollama, out |-> <<>>]

\* The chain run of the current node has not ended.
NoChainOut == [status |-> "running", err |-> NoErr, model |-> model_ollama, out |-> <<>>]

-----------------------------------------------------------------------------
(* Stage functions (swarm/nodes.py).  Each takes the state and what the chain *)
(* run ended with, and gives [raised, err, state]: the exception it raises or *)
(* the state it returns.                                                      *)

Returns(s) == [raised |-> FALSE, err |-> NoErr, state |-> s]

Raises(s, e) == [raised |-> TRUE, err |-> e, state |-> s]

Lit(str) == [t |-> "lit", v |-> <<str>>]

\* Faulty variant of node_research: the research notes are put into the prompt.
node_research_into_prompt(s, r) ==
    IF r.status = "raised" THEN Raises(s, r.err)
    ELSE Returns([s EXCEPT
            !.timeline = Append(@, [node |-> "Researcher", event |-> "done"]),
            !.prompt = "build a todo app [Research Notes]",
            !.plan = <<Lit("[Research Notes]\n")>> \o r.out \o <<Lit("\n\n")>>,
            !.has = @ \cup {"plan"}])

node_research(s, r) ==
    IF r.status = "raised" THEN Raises(s, r.err)
    ELSE Returns([s EXCEPT
            !.timeline = Append(@, [node |-> "Researcher", event |-> "done"]),
            !.plan = <<Lit("[Research Notes]\n")>> \o r.out \o <<Lit("\n\n")>>,
            !.has = @ \cup {"plan"}])

\* Faulty variant of node_plan: the timeline is replaced by a list of its entry.
node_plan_new_timeline(s, r) ==
    IF r.status = "raised" THEN Raises(s, r.err)
    ELSE Returns([s EXCEPT
            !.timeline = <<[node |-> "Planner", event |-> "done"]>>,
            !.plan = (IF Has(s, "plan") THEN s.plan ELSE <<>>)
                        \o <<Lit("[Plan]\n")>> \o r.out \o <<Lit("\n")>>,
            !.has = @ \cup {"plan"}])

\* Faulty variant of node_plan: the plan is replaced by the new section.
node_plan_resets_plan(s, r) ==
    IF r.status = "raised" THEN Raises(s, r.err)
    ELSE Returns([s EXCEPT
            !.timeline = Append(@, [node |-> "Planner", event |-> "done"]),
            !.plan = <<Lit("[Plan]\n")>> \o r.out \o <<Lit("\n")>>,
            !.has = @ \cup {"plan"}])

node_plan(s, r) ==
    IF r.status = "raised" THEN Raises(s, r.err)
    ELSE Returns([s EXCEPT
            !.timeline = Append(@, [node |-> "Planner", event |-> "done"]),
            !.plan = (IF Has(s, "plan") THEN s.plan ELSE <<>>)
                        \o <<Lit("[Plan]\n")>> \o r.out \o <<Lit("\n")>>,
            !.has = @ \cup {"plan"}])

\* The loop of node_code over data.get("files", []): later records overwrite
\* earlier ones with the same path; records without path or content are skipped.
RECURSIVE CollectFiles(_, _)
CollectFiles(list, files) ==
    IF list = <<>> THEN files
    ELSE LET f == Head(list) IN
         IF "path" \in DOMAIN f /\ "content" \in DOMAIN f
         THEN CollectFiles(Tail(list),
                  [p \in DOMAIN files \cup {f.path} |->
                      IF p = f.path THEN f.content ELSE files[p]])
         ELSE CollectFiles(Tail(list), files)

\* Faulty variant of node_code: an empty file list is stored instead of raising.
node_code_accepts_empty(s, r) ==
    IF r.status = "raised" THEN Raises(s, r.err)
    ELSE LET data == _safe_json_loads(r.out) IN
         IF ~data.ok THEN Raises(s, JSONDecodeError)
         ELSE IF ~data.isdict THEN Raises(s, AttributeError)
         ELSE LET files == CollectFiles(DictGet(data.value, "files", <<>>), <<>>) IN
              Returns([s EXCEPT
                      !.code_files = files,
                      !.timeline = Append(@, [node |-> "Coder", event |-> "done",
                                              files |-> Cardinality(DOMAIN files)]),
                      !.has = @ \cup {"code_files"}])

\* Faulty variant of node_code: code_files is assigned before the list is
\* found to be empty.
node_code_stores_before_check(s, r) ==
    IF r.status = "raised" THEN Raises(s, r.err)
    ELSE LET data == _safe_json_loads(r.out) IN
         IF ~data.ok THEN Raises(s, JSONDecodeError)
         ELSE IF ~data.isdict THEN Raises(s, AttributeError)
         ELSE LET files == CollectFiles(DictGet(data.value, "files", <<>>), <<>>)
                  stored == [s EXCEPT !.code_files = files, !.has = @ \cup {"code_files"}] IN
              IF DOMAIN files = {}
              THEN Raises(stored, RuntimeError(<<"Coder returned no files.">>))
              ELSE Returns([stored EXCEPT
                      !.timeline = Append(@, [node |-> "Coder", event |-> "done",
                                              files |-> Cardinality(DOMAIN files)])])

node_code(s, r) ==
    IF r.status = "raised" THEN Raises(s, r.err)
    ELSE LET data == _safe_json_loads(r.out) IN
         IF ~data.ok THEN Raises(s, JSONDecodeError)
         ELSE IF ~data.isdict THEN Raises(s, AttributeError)
         ELSE LET files == CollectFiles(DictGet(data.value, "files", <<>>), <<>>) IN
              IF DOMAIN files = {} THEN Raises(s, RuntimeError(<<"Coder returned no files.">>))
              ELSE Returns([s EXCEPT
                      !.code_files = files,
                      !.timeline = Append(@, [node |-> "Coder", event |-> "done",
                                              files |-> Cardinality(DOMAIN files)]),
                      !.has = @ \cup {"code_files"}])

\* The entries of a JSON list: strings and numbers, each with its text.
JStr(text) == [t |-> "str", v |-> text]

JNum(text) == [t |-> "num", v |-> text]

\* str(p) of a list entry: a string is itself, a number becomes the string of
\* its digits.
str(p) == JStr(p.v)

\* Faulty variant of Truncate: the list is kept whole.
TruncateKeepsAll(list, n) == list

\* prompts[:3]
Truncate(list, n) == SubSeq(list, 1, IF Len(list) < n THEN Len(list) ELSE n)

node_design(s, r) ==
    IF r.status = "raised" THEN Raises(s, r.err)
    ELSE LET data == _safe_json_loads(r.out) IN
         IF ~data.ok THEN Raises(s, JSONDecodeError)
         ELSE IF ~data.isdict THEN Raises(s, AttributeError)
         ELSE LET list == DictGet(data.value, "image_prompts", <<>>)
                  prompts == Truncate([i \in 1..Len(list) |-> str(list[i])],
                                      MaxImagePrompts) IN
              Returns([s EXCEPT
                  !.image_prompts = prompts,
                  !.timeline = Append(@, [node |-> "Designer", event |-> "done",
                                          count |-> Len(prompts)]),
                  !.has = @ \cup {"image_prompts"}])

\* Faulty variant of DenyList: the Stripe name is not on the list.
DenyListSupabaseOnly == {"SUPABASE_SERVICE_ROLE_KEY"}

\* The deny-list of node_review.
DenyList == {"SUPABASE_SERVICE_ROLE_KEY", "STRIPE_SECRET_KEY"}

\* A file content is a sequence of words; a deny-listed name occurs in the joined
\* contents iff it is a word of some content.
ContainsDenied(files) ==
    \E p \in DOMAIN files : \E i \in 1..Len(files[p]) : files[p][i] \in DenyList

RECURSIVE LStripWords(_)
LStripWords(n) == IF n # <<>> /\ Head(n) = " " THEN LStripWords(Tail(n)) ELSE n

RECURSIVE RStripWords(_)
RStripWords(n) ==
    IF n # <<>> /\ n[Len(n)] = " " THEN RStripWords(SubSeq(n, 1, Len(n) - 1)) ELSE n

\* str.strip() of a note, a sequence of words in which " " is whitespace.
StripWords(n) == RStripWords(LStripWords(n))

\* "; ".join(notes), each note a sequence of words.
RECURSIVE JoinNotes(_)
JoinNotes(notes) ==
    IF notes = <<>> THEN <<>>
    ELSE IF Len(notes) = 1 THEN notes[1]
    ELSE notes[1] \o <<"; ">> \o JoinNotes(Tail(notes))

\* [n for n in notes if n]
NonEmptyNotes(notes) == SelectSeq(notes, LAMBDA n : n # <<>>)

\* Faulty variant of LocalReview: a README.md in any directory counts.
LocalReviewAnyReadme(files) ==
    LET missing_readme == DOMAIN files \cap {"README.md", "docs/README.md"} = {}
        secret == ContainsDenied(files)
    IN  [passed |-> ~missing_readme /\ ~secret,
         notes |-> (IF missing_readme THEN << <<"Missing README.md">> >> ELSE <<>>)
                    \o (IF secret
                        THEN << <<"Hardcoded secret-looking env var name found. Use .env, never inline secrets.">> >>
                        ELSE <<>>)]

\* The deterministic verdict of node_review: [passed, notes].
LocalReview(files) ==
    LET missing_readme == "README.md" \notin DOMAIN files
        secret == ContainsDenied(files)
    IN  [passed |-> ~missing_readme /\ ~secret,
         notes |-> (IF missing_readme THEN << <<"Missing README.md">> >> ELSE <<>>)
                    \o (IF secret
                        THEN << <<"Hardcoded secret-looking env var name found. Use .env, never inline secrets.">> >>
                        ELSE <<>>)]

\* Faulty variant of LlmReview: the verdict of the LLM replaces the local one.
LlmReviewOverrides(local, r) ==
    IF r.status = "raised" THEN local
    ELSE LET data == _safe_json_loads(r.out) IN
         IF ~data.ok \/ ~data.isdict THEN local
         ELSE LET llm_pass == DictGet(data.value, "pass", TRUE)
                  llm_notes == StripWords(DictGet(data.value, "notes", <<>>))
              IN  [passed |-> llm_pass,
                   notes |-> IF llm_notes # <<>> THEN Append(local.notes, llm_notes)
                             ELSE local.notes]

\* The try block of node_review: the verdict after the LLM judgment, or the local
\* verdict unchanged when the chain or the parse raised.
LlmReview(local, r) ==
    IF r.status = "raised" THEN local
    ELSE LET data == _safe_json_loads(r.out) IN
         IF ~data.ok \/ ~data.isdict THEN local
         ELSE LET llm_pass == DictGet(data.value, "pass", TRUE)
                  llm_notes == StripWords(DictGet(data.value, "notes", <<>>))
              IN  [passed |-> local.passed /\ llm_pass,
                   notes |-> IF llm_notes # <<>> THEN Append(local.notes, llm_notes)
                             ELSE local.notes]

\* Faulty variant of ReviewNotes: no placeholder when there is no note.
ReviewNotesWithoutPlaceholder(v) == JoinNotes(NonEmptyNotes(v.notes))

\* Faulty variant of ReviewNotes: the placeholder is OK whatever the verdict.
ReviewNotesAlwaysOK(v) ==
    IF JoinNotes(NonEmptyNotes(v.notes)) # <<>> THEN JoinNotes(NonEmptyNotes(v.notes))
    ELSE <<"OK">>

ReviewNotes(v) ==
    IF JoinNotes(NonEmptyNotes(v.notes)) # <<>> THEN JoinNotes(NonEmptyNotes(v.notes))
    ELSE IF v.passed THEN <<"OK">> ELSE <<"Needs fixes">>

\* Faulty variant of node_review: the timeline entry is appended inside the try
\* block, so it is lost when the LLM judgment raises.
node_review_entry_in_try(s, r) ==
    LET files == IF Has(s, "code_files") THEN s.code_files ELSE <<>>
        v == LlmReview(LocalReview(files), r)
        judged == r.status = "returned" /\ _safe_json_loads(r.out).ok
    IN  Returns([s EXCEPT
            !.review_passed = v.passed,
            !.review_notes = ReviewNotes(v),
            !.timeline = IF judged
                         THEN Append(@, [node |-> "Reviewer", event |-> "done",
                                         pass |-> v.passed])
                         ELSE @,
            !.has = @ \cup {"review_passed", "review_notes"}])

\* Faulty variant of node_review: the LLM judgment is made outside a try block,
\* so the error of the chain or of the parse leaves the node.
node_review_without_try(s, r) ==
    LET files == IF Has(s, "code_files") THEN s.code_files ELSE <<>>
        v == LlmReview(LocalReview(files), r)
    IN  IF r.status = "raised" THEN Raises(s, r.err)
        ELSE IF ~_safe_json_loads(r.out).ok THEN Raises(s, JSONDecodeError)
        ELSE IF ~_safe_json_loads(r.out).isdict THEN Raises(s, AttributeError)
        ELSE Returns([s EXCEPT
                !.review_passed = v.passed,
                !.review_notes = ReviewNotes(v),
                !.timeline = Append(@, [node |-> "Reviewer", event |-> "done",
                                        pass |-> v.passed]),
                !.has = @ \cup {"review_passed", "review_notes"}])

node_review(s, r) ==
    LET files == IF Has(s, "code_files") THEN s.code_files ELSE <<>>
        v == LlmReview(LocalReview(files), r)
    IN  Returns([s EXCEPT
            !.review_passed = v.passed,
            !.review_notes = ReviewNotes(v),
            !.timeline = Append(@, [node |-> "Reviewer", event |-> "done",
                                    pass |-> v.passed]),
            !.has = @ \cup {"review_passed", "review_notes"}])

\* The node function the graph runs for a node name (build_graph add_node).
RunNode(n, s, r) ==
    CASE n = "Researcher" -> node_research(s, r)
      [] n = "Planner" -> node_plan(s, r)
      [] n = "Coder" -> node_code(s, r)
      [] n = "Designer" -> node_design(s, r)
      [] n = "Reviewer" -> node_review(s, r)

-----------------------------------------------------------------------------
(* Orchestrator (swarm/graph.py) *)

\* Faulty variant of RetryAllowed: the cap is compared with <=.
RetryAllowedOffByOne(review_passed, iters, max_iters) ==
    ~review_passed /\ iters <= max_iters

\* Faulty variant of RetryAllowed: the cap is not consulted.
RetryAllowedNoCap(review_passed, iters, max_iters) == ~review_passed

\* The condition of route_after_review for going back to the Planner.
RetryAllowed(review_passed, iters, max_iters) == ~review_passed /\ iters < max_iters

\* Faulty variant of route_after_review: the retry is not counted.
RouteWithoutIncrement(s) ==
    IF RetryAllowed(Has(s, "review_passed") /\ s.review_passed, s.iterations,
                    s.max_iterations)
    THEN [next |-> "Planner", state |-> s]
    ELSE [next |-> END, state |-> s]

\* route_after_review: the next node and the state it leaves.
route_after_review(s) ==
    LET iters == s.iterations
        max_iters == s.max_iterations
    IN  IF RetryAllowed(Has(s, "review_passed") /\ s.review_passed, iters, max_iters)
        THEN [next |-> "Planner", state |-> [s EXCEPT !.iterations = iters + 1]]
        ELSE [next |-> END, state |-> s]

-----------------------------------------------------------------------------
(* Inputs: what the providers and the collaborators may answer *)

\* The classes of failure of one completion: the call raises (network, non-2xx,
\* timeout) or the response envelope lacks choices[0].message.content.
FailureKinds == {"APIError", "KeyError"}

ReadmeFile == [path |-> "README.md", content |-> <<"run", "it">>]

MainFile == [path |-> "main.py", content |-> <<"print">>]

AppFile == [path |-> "app.py", content |-> <<"serve">>]

Object(d) == <<Tok("{"), Members(d), Tok("}")>>

Proses == {<<Tok("prose")>>}

CoderRaws ==
    { <<Tok("prose")>> \o Object([files |-> <<ReadmeFile, MainFile>>]) \o <<Tok("prose")>>,
      Object([files |-> <<AppFile, MainFile>>]),
      Object([files |-> <<>>]),
      Object([files |-> <<[path |-> "main.py"]>>]),
      <<Tok("prose")>> }

DesignerRaws ==
    { Object([image_prompts |-> <<JStr("hero"), JStr("icon"), JStr("logo"), JStr("banner")>>]),
      <<Tok("prose"), Tok("}")>> }

ReviewerRaws ==
    { Object([pass |-> TRUE, notes |-> <<>>]),
      Object([pass |-> FALSE, notes |-> <<"add", "tests", " ">>]),
      <<Tok("prose")>> }

\* The texts a successful completion may return to a node.
Responses(n) ==
    CASE n = "Researcher" -> Proses
      [] n = "Planner" -> Proses
      [] n = "Coder" -> CoderRaws
      [] n = "Designer" -> DesignerRaws
      [] n = "Reviewer" -> ReviewerRaws

\* What create_signed_url may answer: a URL or none.
SignedUrls == {"https://signed", None}

-----------------------------------------------------------------------------
(* HybridSwarm._swarm (src/app.py): every provider with a key is called, the *)
(* calls run concurrently, and the result is picked from what they returned. *)

\* The providers in the order _swarm appends their calls to tasks.
SwarmProviders == <<"groq", "openrouter", "gemini">>

\* bool(key) of an API key read from the environment ("" when it is not set).
Truthy(key) == key # ""

\* The key of HybridSwarm a provider's call is guarded by.
SwarmKey(sw, p) ==
    CASE p = "groq" -> sw.groq_key
      [] p = "openrouter" -> sw.openrouter_key
      [] p = "gemini" -> sw.google_key

\* The list tasks of _swarm: one call per provider whose key is set.
SwarmTasks(sw) ==
    SelectSeq(SwarmProviders, LAMBDA p : Truthy(SwarmKey(sw, p)))

\* What a _call_<provider> returns: the edited code tagged with the provider, or
\* a dict with the key error (non-200 status, or an exception it caught).
CallOk(p) == [has |-> {"new_code", "explanation", "provider", "cost", "quantum_energy"},
              provider |-> p, error |-> "", swarm_mode |-> FALSE, candidates |-> 0]

CallError(msg) == [has |-> {"error"}, provider |-> "", error |-> msg,
                   swarm_mode |-> FALSE, candidates |-> 0]

\* The result slot of a call that has not returned.
CallPending == [has |-> {}, provider |-> "", error |-> "", swarm_mode |-> FALSE,
                candidates |-> 0]

\* Faulty variant of Gather: the results come in the order the calls completed.
GatherAsCompleted(tasks, arrived, result) ==
    [i \in 1..Len(arrived) |-> result[arrived[i]]]

\* asyncio.gather(*tasks): the results in the order of tasks, whatever the order
\* the calls completed in.
Gather(tasks, arrived, result) ==
    [i \in 1..Len(tasks) |-> result[tasks[i]]]

\* valid = [r for r in results if ... "error" not in r]
Valid(results) == SelectSeq(results, LAMBDA r : "error" \notin r.has)

\* What _swarm returns for the gathered results.
SwarmResult(results) ==
    LET valid == Valid(results) IN
    IF valid = <<>> THEN CallError("All providers failed")
    ELSE [valid[1] EXCEPT !.swarm_mode = TRUE,
                          !.candidates = Len(valid),
                          !.has = @ \cup {"swarm_mode", "candidates"}]

\* The message of a _call_<provider> that finds its key missing.
KeyMissing(p) ==
    CASE p = "groq" -> "Groq key missing"
      [] p = "openrouter" -> "OpenRouter key missing"
      [] p = "gemini" -> "Gemini key missing"

\* The requests the calls of the given providers send: a _call_<provider>
\* returns before its client.post when its key is missing.
Posts(sw, providers) == SelectSeq(providers, LAMBDA p : Truthy(SwarmKey(sw, p)))

\* A HybridSwarm with no call made: mode is the branch vibe took, posts the
\* providers a request was sent to.
SwarmIdle ==
    [groq_key |-> "", openrouter_key |-> "", google_key |-> "",
     pc |-> "idle", mode |-> "", posts |-> <<>>, tasks |-> <<>>, arrived |-> <<>>,
     result |-> [p \in {"groq", "openrouter", "gemini"} |-> CallPending],
     out |-> CallPending]

\* _swarm up to the await of gather: the calls are created and scheduled, or
\* the call returns at once when no key is set.
SwarmCall ==
    /\ swarm.pc = "idle"
    /\ LET tasks == SwarmTasks(swarm) IN
       IF tasks = <<>>
       THEN swarm' = [swarm EXCEPT !.pc = "returned", !.mode = "swarm",
                                   !.out = CallError("No providers available")]
       ELSE swarm' = [swarm EXCEPT !.pc = "gathering", !.mode = "swarm",
                                   !.tasks = tasks, !.posts = @ \o Posts(swarm, tasks)]
    /\ UNCHANGED <<workflow, limiter, pipeline>>

\* One of the calls in flight returns r.
CallFinishes(p, r) ==
    /\ swarm.pc = "gathering"
    /\ \E i \in 1..Len(swarm.tasks) : swarm.tasks[i] = p
    /\ \A i \in 1..Len(swarm.arrived) : swarm.arrived[i] # p
    /\ swarm' = [swarm EXCEPT !.result[p] = r, !.arrived = Append(@, p)]
    /\ UNCHANGED <<workflow, limiter, pipeline>>

\* gather returns once every call has returned; _swarm picks and tags the winner.
SwarmReturns ==
    /\ swarm.pc = "gathering"
    /\ Len(swarm.arrived) = Len(swarm.tasks)
    /\ swarm' = [swarm EXCEPT
                    !.pc = "returned",
                    !.out = SwarmResult(Gather(swarm.tasks, swarm.arrived, swarm.result))]
    /\ UNCHANGED <<workflow, limiter, pipeline>>

\* HybridSwarm._route: the provider, or "swarm"; energy is the lattice energy
\* in tenths.
_route(user_tier, swarm_mode, energy) ==
    IF user_tier = "free" THEN "gemini"
    ELSE IF swarm_mode = "quality" THEN "swarm"
    ELSE IF energy > 7 THEN "groq"
    ELSE IF energy < 3 THEN "openrouter"
    ELSE "gemini"

\* Faulty variant of SingleTarget: the fallback to gemini does not look at its key.
SingleTargetFallbackUnchecked(sw, provider) ==
    IF provider = "gemini" /\ Truthy(sw.google_key) THEN "gemini"
    ELSE IF provider = "groq" /\ Truthy(sw.groq_key) THEN "groq"
    ELSE IF provider = "openrouter" /\ Truthy(sw.openrouter_key) THEN "openrouter"
    ELSE "gemini"

\* The provider _single calls: the routed one when its key is set, else gemini
\* when its key is set, else none.
SingleTarget(sw, provider) ==
    IF provider = "gemini" /\ Truthy(sw.google_key) THEN "gemini"
    ELSE IF provider = "groq" /\ Truthy(sw.groq_key) THEN "groq"
    ELSE IF provider = "openrouter" /\ Truthy(sw.openrouter_key) THEN "openrouter"
    ELSE IF Truthy(sw.google_key) THEN "gemini"
    ELSE None

\* _single up to the await of its call, or to its return when no call is made
\* or the call finds its key missing.
SingleCall(provider) ==
    /\ swarm.pc = "idle"
    /\ LET target == SingleTarget(swarm, provider) IN
       IF target = None
       THEN swarm' = [swarm EXCEPT !.pc = "returned", !.mode = "single",
                                   !.out = CallError("No API keys configured")]
       ELSE IF ~Truthy(SwarmKey(swarm, target))
       THEN swarm' = [swarm EXCEPT !.pc = "returned", !.mode = "single",
                                   !.tasks = <<target>>,
                                   !.out = CallError(KeyMissing(target))]
       ELSE swarm' = [swarm EXCEPT !.pc = "awaiting", !.mode = "single",
                                   !.tasks = <<target>>,
                                   !.posts = @ \o Posts(swarm, <<target>>)]
    /\ UNCHANGED <<workflow, limiter, pipeline>>

\* The call of _single, to provider p, returns r, which _single returns as it is.
SingleReturns(p, r) ==
    /\ swarm.pc = "awaiting"
    /\ swarm.tasks = <<p>>
    /\ swarm' = [swarm EXCEPT !.pc = "returned", !.arrived = <<p>>,
                              !.result[p] = r, !.out = r]
    /\ UNCHANGED <<workflow, limiter, pipeline>>

\* HybridSwarm.vibe: the route decides between _swarm and _single.
vibe(user_tier, swarm_mode, energy) ==
    LET provider == _route(user_tier, swarm_mode, energy) IN
    IF provider = "swarm" THEN SwarmCall ELSE SingleCall(provider)

-----------------------------------------------------------------------------
(* InMemoryRateLimiter (app/rate_limit.py): a deque of accepted request times *)
(* per client key.  Times are whole seconds of a clock that does not go back. *)

\* Largest rpm setting the limiter is constructed with.
MaxRpm == 2

\* The clock is followed up to this time.
MaxNow == 92

\* Most requests checked in one behaviour.
MaxRequests == 4

window_sec == 60

\* The client keys (request.client.host, or "unknown").
ClientKeys == {"10.0.0.1", "unknown"}

\* The seconds that may pass between two events: together they reach ages of
\* exactly window_sec and of one second more or less.
TickSteps == {29, 30, 31}

\* The loop of check that drops the hits older than the window from the left.
RECURSIVE Evict(_, _)
Evict(q, now) ==
    IF q # <<>> /\ (now - Head(q)) > window_sec THEN Evict(Tail(q), now) ELSE q

\* Faulty variant of Rejects: one request more than rpm is let through.
RejectsAboveRpm(q, rpm) == Len(q) > rpm

\* The condition of check for raising HTTPException(429).
Rejects(q, rpm) == Len(q) >= rpm

\* InMemoryRateLimiter(rpm), with the clock at 0 and no request checked.
NewLimiter(rpm) ==
    [rpm |-> IF rpm < 1 THEN 1 ELSE rpm,
     hits |-> [k \in ClientKeys |-> <<>>],
     now |-> 0,
     log |-> <<>>]

\* Time passes.
Tick(d) ==
    /\ limiter.now + d <= MaxNow
    /\ limiter' = [limiter EXCEPT !.now = @ + d]
    /\ UNCHANGED <<workflow, swarm, pipeline>>

\* Faulty variant of check: the time of the request is appended before the
\* limit is looked at, so a rejected request is recorded too.
checkRecordsRejected(key) ==
    /\ Len(limiter.log) < MaxRequests
    /\ LET now == limiter.now
           q == Evict(limiter.hits[key], now)
       IN  limiter' = [limiter EXCEPT
                    !.hits[key] = Append(q, now),
                    !.log = Append(@, [key |-> key, at |-> now,
                                       status |-> IF Rejects(q, limiter.rpm)
                                                  THEN 429 ELSE 200])]
    /\ UNCHANGED <<workflow, swarm, pipeline>>

\* check(key) at the current time: the request is accepted (its time is
\* appended) or rejected with status 429; the log keeps what was answered.
check(key) ==
    /\ Len(limiter.log) < MaxRequests
    /\ LET now == limiter.now
           q == Evict(limiter.hits[key], now)
       IN  IF Rejects(q, limiter.rpm)
           THEN limiter' = [limiter EXCEPT
                    !.hits[key] = q,
                    !.log = Append(@, [key |-> key, at |-> now, status |-> 429])]
           ELSE limiter' = [limiter EXCEPT
                    !.hits[key] = Append(q, now),
                    !.log = Append(@, [key |-> key, at |-> now, status |-> 200])]
    /\ UNCHANGED <<workflow, swarm, pipeline>>

-----------------------------------------------------------------------------
(* AIRouter and GenerationPipeline (nexus_nebula/services/ai_pipeline.py):   *)
(* the 6-stage graph research, plan, code, design, review, export.  A text   *)
(* is a sequence of words.  Every step mutates the one GenerationState       *)
(* object in place and returns it.                                           *)

\* Most executions of the review step followed in one behaviour.
MaxReviews == 3

\* AIRouter.providers, in configured order.
AIRouter_providers ==
    << <<"groq", "/", "llama", "-3.3-70b-versatile">>,
       <<"openrouter", "/", "anthropic", "/", "claude", "-3.5-sonnet">>,
       <<"gemini", "/", "gemini", "-1.5-flash-latest">>,
       <<"ollama", "/", "llama", "2">> >>

\* sub in text, for texts that are sequences of words.
InText(sub, text) ==
    \E k \in 0..(Len(text) - Len(sub)) : SubSeq(text, k + 1, k + Len(sub)) = sub

\* Faulty variant of ProvidersToTry: the preferred providers are put in front of
\* the whole list, so they are tried a second time.
ProvidersToTryTwice(model_preference) ==
    IF model_preference # <<>>
    THEN SelectSeq(AIRouter_providers, LAMBDA q : InText(model_preference, q))
             \o AIRouter_providers
    ELSE AIRouter_providers

\* providers_to_try of AIRouter.call; no preference (None) is the empty text.
ProvidersToTry(model_preference) ==
    IF model_preference # <<>>
    THEN LET preferred_providers ==
                 SelectSeq(AIRouter_providers, LAMBDA q : InText(model_preference, q))
         IN  preferred_providers
                 \o SelectSeq(AIRouter_providers,
                        LAMBDA q : \A i \in 1..Len(preferred_providers) :
                                       preferred_providers[i] # q)
    ELSE AIRouter_providers

\* str(e) of the exception a provider's completion raised.
ProviderError(provider, kind) == <<kind, ": ">> \o provider

\* The message of the exception AIRouter.call raises.
AllProvidersFailed(last_error) == <<"All providers failed. Last error: ">> \o last_error

\* No AIRouter.call in progress.
NoCall ==
    [status |-> "none", model_preference |-> <<>>, providers_to_try |-> <<>>, i |-> 1,
     last_error |-> <<"None">>, tried |-> <<>>, response |-> <<>>]

\* AIRouter.call up to its loop.
RouterCall(model_preference) ==
    [NoCall EXCEPT !.status = "running",
                   !.model_preference = model_preference,
                   !.providers_to_try = ProvidersToTry(model_preference)]

\* One iteration of the loop whose completion raises.
RouterFails(c, kind) ==
    [c EXCEPT !.tried = Append(@, c.providers_to_try[c.i]),
              !.last_error = ProviderError(c.providers_to_try[c.i], kind),
              !.i = @ + 1]

\* One iteration of the loop whose completion returns: call returns its content.
RouterReturns(c, out) ==
    [c EXCEPT !.tried = Append(@, c.providers_to_try[c.i]),
              !.status = "returned",
              !.response = out]

\* The loop is over: call raises Exception(AllProvidersFailed(last_error)).
RouterRaises(c) == [c EXCEPT !.status = "raised"]

\* GenerationState().metadata: no key set.
NoMetadata ==
    [has |-> {}, research |-> <<>>, plan |-> <<>>, code |-> <<>>, design |-> <<>>,
     review |-> <<>>, passed |-> FALSE, export |-> <<>>]

\* initial_state of generate.
GenerationState ==
    [prompt |-> <<"build", "a", "blog">>, files |-> <<>>, artifacts |-> <<>>,
     feedback |-> <<>>, metadata |-> NoMetadata, current_step |-> "research",
     errors |-> <<>>]

\* The steps of the graph: the fields of earlier results the agent's prompt
\* reads (in the order of the f-string), the model preference of its call, the
\* metadata key of its result, the current_step it sets and the prefix of its
\* error message.
Steps ==
    [research |-> [needs |-> <<>>, pref |-> <<"claude">>, done |-> "plan",
                   failed |-> "Research failed: "],
     plan |-> [needs |-> <<[key |-> "research", field |-> "'analysis'"]>>,
               pref |-> <<"claude">>, done |-> "code", failed |-> "Planning failed: "],
     code |-> [needs |-> <<[key |-> "plan", field |-> "'plan'"]>>,
               pref |-> <<"groq">>, done |-> "design", failed |-> "Coding failed: "],
     design |-> [needs |-> <<[key |-> "plan", field |-> "'plan'"],
                             [key |-> "code", field |-> "'code'"]>>,
                 pref |-> <<"gemini">>, done |-> "review", failed |-> "Design failed: "],
     review |-> [needs |-> <<[key |-> "code", field |-> "'code'"],
                             [key |-> "design", field |-> "'design'"]>>,
                 pref |-> <<>>, done |-> "export", failed |-> "Review failed: "],
     export |-> [needs |-> <<[key |-> "code", field |-> "'code'"],
                             [key |-> "design", field |-> "'design'"],
                             [key |-> "review", field |-> "'review'"]>>,
                 pref |-> <<"groq">>, done |-> "complete", failed |-> "Export failed: "]]

\* The edges of _build_graph that are not conditional.
PipelineEdge ==
    [research |-> "plan", plan |-> "code", code |-> "design", design |-> "review",
     export |-> END]

\* str(KeyError) of the first field the agent's prompt reads from a result that
\* is not in metadata (metadata.get(key, {}) gave {}), or <<>> when none is.
MissingInput(n, metadata) ==
    LET missing == SelectSeq(Steps[n].needs, LAMBDA x : x.key \notin metadata.has)
    IN  IF missing = <<>> THEN <<>> ELSE <<missing[1].field>>

\* str.upper() of a word.
Upper(w) ==
    CASE w = "pass" -> "PASS"
      [] w = "Passed" -> "PASSED"
      [] w = "fail" -> "FAIL"
      [] OTHER -> w

\* "PASS" in response.upper()
Passed(response) ==
    \E i \in 1..Len(response) : Upper(response[i]) \in {"PASS", "PASSED"}

\* Faulty variant of StepFails: the failed step marks current_step.
StepFailsMarksStep(s, n, msg) ==
    [s EXCEPT !.errors = Append(@, <<Steps[n].failed>> \o msg),
              !.current_step = "failed"]

\* The except branch of a step: one message is appended to errors.
StepFails(s, n, msg) ==
    [s EXCEPT !.errors = Append(@, <<Steps[n].failed>> \o msg)]

\* The try block of a step after its agent returned: the result is recorded and
\* current_step set.
StepDone(s, n, response) ==
    [s EXCEPT !.metadata = [@ EXCEPT ![n] = response,
                                     !.has = @ \cup {n},
                                     !.passed = IF n = "review" THEN Passed(response)
                                                ELSE @],
              !.current_step = IF n = "review"
                               THEN (IF Passed(response) THEN "export" ELSE "plan")
                               ELSE Steps[n].done]

\* Faulty variant of _should_replan: after the second review the graph goes on
\* to export whatever the verdict.
_should_replan_capped(s, reviews) ==
    IF ("review" \in s.metadata.has /\ s.metadata.passed) \/ reviews >= 2
    THEN "export" ELSE "replan"

\* _should_replan: review.get("passed", False) of metadata.get("review", {});
\* the number of reviews made so far is not looked at.
_should_replan(s, reviews) ==
    IF "review" \in s.metadata.has /\ s.metadata.passed THEN "export" ELSE "replan"

\* The result generate returns for the final state.
GenerateResult(s) ==
    [returned |-> TRUE, success |-> Len(s.errors) = 0, artifacts |-> s.artifacts,
     metadata |-> s.metadata, errors |-> s.errors, current_step |-> s.current_step]

NoResult ==
    [returned |-> FALSE, success |-> FALSE, artifacts |-> <<>>,
     metadata |-> NoMetadata, errors |-> <<>>, current_step |-> ""]

\* A GenerationPipeline with no generate call made.
PipelineIdle ==
    [pc |-> "idle", node |-> "research", state |-> GenerationState, call |-> NoCall,
     reviews |-> 0, result |-> NoResult]

\* The graph after the step of node pl.node returned the state s: the next node
\* of the edge, the conditional edge after review, or END after export.
Advance(pl, s) ==
    [pl EXCEPT !.state = s,
               !.call = NoCall,
               !.pc = IF pl.node = "review" THEN "route"
                      ELSE IF pl.node = "export" THEN "end" ELSE "step",
               !.node = IF pl.node = "review" THEN @ ELSE PipelineEdge[pl.node],
               !.reviews = IF pl.node = "review" THEN @ + 1 ELSE @]

\* generate up to the first step of the graph.
Generate ==
    /\ pipeline.pc = "idle"
    /\ pipeline' = [pipeline EXCEPT !.pc = "step", !.node = "research",
                                    !.state = GenerationState]
    /\ UNCHANGED <<workflow, swarm, limiter>>

\* A step up to the await of its router call; the step is over at once when the
\* agent's prompt reads a result that is not there (KeyError).
StepStarts ==
    /\ pipeline.pc = "step"
    /\ LET n == pipeline.node
           missing == MissingInput(n, pipeline.state.metadata)
       IN  IF missing # <<>>
           THEN pipeline' = Advance(pipeline, StepFails(pipeline.state, n, missing))
           ELSE pipeline' = [pipeline EXCEPT !.pc = "calling",
                                             !.call = RouterCall(Steps[n].pref)]
    /\ UNCHANGED <<workflow, swarm, limiter>>

\* The completion of the provider tried raises.
ProviderFails(kind) ==
    /\ pipeline.pc = "calling"
    /\ pipeline.call.i <= Len(pipeline.call.providers_to_try)
    /\ pipeline' = [pipeline EXCEPT !.call = RouterFails(@, kind)]
    /\ UNCHANGED <<workflow, swarm, limiter>>

\* The completion of the provider tried returns: the router and the agent
\* return, and the step records the result.  A call made outside the graph
\* leaves its result in call.
ProviderReturns(out) ==
    /\ pipeline.pc = "calling"
    /\ pipeline.call.i <= Len(pipeline.call.providers_to_try)
    /\ IF pipeline.node = "none"
       THEN pipeline' = [pipeline EXCEPT !.pc = "called",
                                         !.call = RouterReturns(@, out)]
       ELSE pipeline' = Advance(pipeline, StepDone(pipeline.state, pipeline.node, out))
    /\ UNCHANGED <<workflow, swarm, limiter>>

\* Every provider failed: the router raises, and the step appends its error.
ProvidersExhausted ==
    /\ pipeline.pc = "calling"
    /\ pipeline.call.i > Len(pipeline.call.providers_to_try)
    /\ IF pipeline.node = "none"
       THEN pipeline' = [pipeline EXCEPT !.pc = "called", !.call = RouterRaises(@)]
       ELSE pipeline' = Advance(pipeline,
                            StepFails(pipeline.state, pipeline.node,
                                      AllProvidersFailed(pipeline.call.last_error)))
    /\ UNCHANGED <<workflow, swarm, limiter>>

\* The conditional edge after review.
ShouldReplan ==
    /\ pipeline.pc = "route"
    /\ IF _should_replan(pipeline.state, pipeline.reviews) = "export"
       THEN pipeline' = [pipeline EXCEPT !.pc = "step", !.node = "export"]
       ELSE /\ pipeline.reviews < MaxReviews
            /\ pipeline' = [pipeline EXCEPT !.pc = "step", !.node = "plan"]
    /\ UNCHANGED <<workflow, swarm, limiter>>

\* The graph is at END: ainvoke returns the state and generate its result.
GenerateReturns ==
    /\ pipeline.pc = "end"
    /\ pipeline' = [pipeline EXCEPT !.pc = "returned",
                                    !.result = GenerateResult(pipeline.state)]
    /\ UNCHANGED <<workflow, swarm, limiter>>

-----------------------------------------------------------------------------
(* generate() and event_stream() (app/main.py) *)

ProjectId == "p1"

\* The state dict generate() builds; the optional keys are absent (has = {}).
InitialState(max_iterations) ==
    [project_id |-> ProjectId, owner_id |-> "u1", title |-> "Untitled Project",
     kind |-> "webapp", prompt |-> "build a todo app",
     iterations |-> 0, max_iterations |-> max_iterations,
     timeline |-> <<>>,
     plan |-> <<>>, code_files |-> <<>>, image_prompts |-> <<>>,
     review_passed |-> FALSE, review_notes |-> <<>>,
     artifact_storage_path |-> "", artifact_signed_url |-> "", artifact_id |-> "",
     has |-> {}]

\* utils/sse.py: one frame, the event name and its JSON payload.
sse(event, data) == [event |-> event, data |-> data]

\* A JSON value that may be null.
Nullable(present, v) == [null |-> ~present, value |-> IF present THEN v ELSE <<>>]

\* _persist_project_state: the update of the project row.
PersistProjectState(status, swarm_state) ==
    /\ project' = [status |-> status, swarm_state |-> swarm_state]
    /\ saves' = Append(saves, status)

\* Faulty variant of FailedState: the request's initial state is saved.
FailedStateInitial(s) == InitialState(s.max_iterations)

\* The state the except branch of event_stream persists.
FailedState(s) == s

\* Faulty variant of OnException: the failed status is yielded before the error.
OnExceptionStatusFirst(e) ==
    /\ PersistProjectState("failed", FailedState(state'))
    /\ exc' = e
    /\ events' = events \o <<sse("status", [message |-> "failed", project_id |-> ProjectId]),
                             sse("error", [message |-> Str(e)])>>
    /\ pc' = "failed"

\* The except branch of event_stream, for an exception e raised in the try
\* block: the state it saves is the dict the failed node was working on, as that
\* node left it.
OnException(e) ==
    /\ PersistProjectState("failed", FailedState(state'))
    /\ exc' = e
    /\ events' = events \o <<sse("error", [message |-> Str(e)]),
                             sse("status", [message |-> "failed", project_id |-> ProjectId])>>
    /\ pc' = "failed"

Init ==
    /\ keys \in [KeyNames -> {None, "key"}]
    /\ state \in {InitialState(m) : m \in 0..MaxCap}
    /\ pc = "init"
    /\ node = "Researcher"
    /\ ci = 1
    /\ last_err = NoErr
    /\ calls = <<>>
    /\ chain_out = NoChainOut
    /\ exc = NoErr
    /\ events = <<>>
    /\ project = [status |-> "running", swarm_state |-> <<>>]
    /\ saves = <<>>
    /\ artifacts = <<>>
    /\ swarm = SwarmIdle
    /\ limiter = NewLimiter(1)
    /\ pipeline = PipelineIdle

\* Faulty variant of StreamStart: swarm_started is yielded without the project
\* having been saved as running.
StreamStartWithoutSave ==
    /\ pc = "init"
    /\ events' = Append(events, sse("status", [message |-> "swarm_started",
                                                project_id |-> ProjectId]))
    /\ pc' = "node_start"
    /\ UNCHANGED <<keys, state, node, ci, last_err, calls, chain_out, exc, project, saves,
                   artifacts>>
    /\ UNCHANGED others

\* event_stream up to its first yield.
StreamStart ==
    /\ pc = "init"
    /\ PersistProjectState("running", state)
    /\ events' = Append(events, sse("status", [message |-> "swarm_started",
                                                project_id |-> ProjectId]))
    /\ pc' = "node_start"
    /\ UNCHANGED <<keys, state, node, ci, last_err, calls, chain_out, exc, artifacts>>
    /\ UNCHANGED others

\* Faulty variant of NodeStart: the node is entered without a node_start event.
NodeStartSilent ==
    /\ pc = "node_start"
    /\ ci' = 1
    /\ last_err' = NoErr
    /\ calls' = <<>>
    /\ chain_out' = NoChainOut
    /\ pc' = "chain"
    /\ UNCHANGED <<keys, state, node, exc, events, project, saves, artifacts>>
    /\ UNCHANGED others

\* on_chain_start of a node: the node_start event, and the node function is
\* entered (its chain run begins).
NodeStart ==
    /\ pc = "node_start"
    /\ events' = Append(events, sse("node", [phase |-> "start", node |-> node]))
    /\ ci' = 1
    /\ last_err' = NoErr
    /\ calls' = <<>>
    /\ chain_out' = NoChainOut
    /\ pc' = "chain"
    /\ UNCHANGED <<keys, state, node, exc, project, saves, artifacts>>
    /\ UNCHANGED others

\* Faulty variant of NodeContinues: a node that raised is started again.
NodeContinuesRetrying(r) ==
    LET res == RunNode(node, state, r) IN
    /\ chain_out' = r
    /\ IF res.raised
       THEN /\ state' = res.state
            /\ pc' = "node_start"
            /\ UNCHANGED <<exc, events, project, saves>>
       ELSE /\ state' = res.state
            /\ pc' = "node_end"
            /\ UNCHANGED <<exc, events, project, saves>>

\* The rest of the node function once its chain run ended with r: the node
\* returns (on_chain_end follows) or its exception reaches event_stream.
NodeContinues(r) ==
    LET res == RunNode(node, state, r) IN
    /\ chain_out' = r
    /\ IF res.raised
       THEN /\ state' = res.state
            /\ OnException(res.err)
       ELSE /\ state' = res.state
            /\ pc' = "node_end"
            /\ UNCHANGED <<exc, events, project, saves>>

\* One iteration of the loop of _try_models_one_shot whose completion raises.
CompletionRaises(kind) ==
    /\ pc = "chain"
    /\ ci <= Len(node_kwargs[node])
    /\ LET m == node_kwargs[node][ci] IN
       /\ calls' = Append(calls, CallRaised(Completion(m, keys), CompletionError(m, kind)))
       /\ last_err' = LastErrAfter(last_err, CompletionError(m, kind))
    /\ ci' = ci + 1
    /\ UNCHANGED <<keys, state, pc, node, chain_out, exc, events, project, saves, artifacts>>
    /\ UNCHANGED others

\* One iteration of the loop whose completion returns out: the runner returns.
CompletionReturns(out) ==
    /\ pc = "chain"
    /\ ci <= Len(node_kwargs[node])
    /\ LET m == node_kwargs[node][ci] IN
       /\ calls' = Append(calls, CallReturned(Completion(m, keys), out))
       /\ NodeContinues(ChainReturn(node_kwargs[node], ci, out))
    /\ UNCHANGED <<keys, node, ci, last_err, artifacts>>
    /\ UNCHANGED others

\* The loop is over without a return: the runner raises.
ChainExhausted ==
    /\ pc = "chain"
    /\ ci > Len(node_kwargs[node])
    /\ NodeContinues(ChainRaise(last_err))
    /\ UNCHANGED <<keys, node, ci, last_err, calls, artifacts>>
    /\ UNCHANGED others

\* Faulty variant of NodeEnd: the node end is yielded without saving the state.
NodeEndWithoutSave ==
    /\ pc = "node_end"
    /\ events' = Append(events,
           sse("node", [phase |-> "end", node |-> node,
                        review |-> Nullable(Has(state, "review_notes"), state.review_notes)]))
    /\ IF node = "Reviewer"
       THEN pc' = "route" /\ UNCHANGED node
       ELSE pc' = "node_start" /\ node' = Edge[node]
    /\ ci' = 1
    /\ last_err' = NoErr
    /\ calls' = <<>>
    /\ chain_out' = NoChainOut
    /\ UNCHANGED <<keys, state, exc, project, saves, artifacts>>
    /\ UNCHANGED others

\* on_chain_end of a node: event_stream saves the state and yields the node end.
NodeEnd ==
    /\ pc = "node_end"
    /\ PersistProjectState("running", state)
    /\ events' = Append(events,
           sse("node", [phase |-> "end", node |-> node,
                        review |-> Nullable(Has(state, "review_notes"), state.review_notes)]))
    /\ IF node = "Reviewer"
       THEN pc' = "route" /\ UNCHANGED node
       ELSE pc' = "node_start" /\ node' = Edge[node]
    /\ ci' = 1
    /\ last_err' = NoErr
    /\ calls' = <<>>
    /\ chain_out' = NoChainOut
    /\ UNCHANGED <<keys, state, exc, artifacts>>
    /\ UNCHANGED others

\* The conditional edge after the Reviewer.
RouteAfterReview ==
    /\ pc = "route"
    /\ LET r == route_after_review(state) IN
       /\ state' = r.state
       /\ IF r.next = END
          THEN pc' = "package" /\ UNCHANGED node
          ELSE pc' = "node_start" /\ node' = r.next
    /\ UNCHANGED <<keys, ci, last_err, calls, chain_out, exc, events, project, saves, artifacts>>
    /\ UNCHANGED others

\* Faulty variant of Package: the final status follows the Reviewer's verdict,
\* a failed review is saved and reported as failed.
PackageReportsVerdict(signed) ==
    /\ pc = "package"
    /\ LET code_files == IF Has(state, "code_files") THEN state.code_files ELSE <<>>
           passed == Has(state, "review_passed") /\ state.review_passed
           status == IF passed THEN "completed" ELSE "failed"
           manifest ==
               [project_id |-> ProjectId, kind |-> state.kind,
                review_passed |-> passed,
                review_notes |-> Nullable(Has(state, "review_notes"), state.review_notes),
                image_prompts |-> IF Has(state, "image_prompts") THEN state.image_prompts
                                  ELSE <<>>]
           files == [p \in DOMAIN code_files \cup {"nexus.manifest.json"} |->
                        IF p = "nexus.manifest.json" THEN <<manifest>> ELSE code_files[p]]
           artifact_id == "a1"
           storage_path == <<state.owner_id, ProjectId, artifact_id>>
           final == [state EXCEPT
                        !.artifact_storage_path = storage_path,
                        !.artifact_signed_url = IF signed = None THEN "" ELSE signed,
                        !.artifact_id = artifact_id,
                        !.has = @ \cup {"artifact_storage_path", "artifact_signed_url",
                                        "artifact_id"}]
       IN  /\ artifacts' = Append(artifacts, [id |-> artifact_id, storage_path |-> storage_path,
                                              zip |-> files, meta |-> manifest])
           /\ state' = final
           /\ PersistProjectState(status, final)
           /\ events' = events \o
                <<sse("artifact", [artifact_id |-> artifact_id,
                                   signed_url |-> final.artifact_signed_url]),
                  sse("status", [message |-> status, project_id |-> ProjectId])>>
    /\ pc' = "done"
    /\ UNCHANGED <<keys, node, ci, last_err, calls, chain_out, exc>>
    /\ UNCHANGED others

\* Faulty variant of Package: the manifest is added to the state's own
\* code_files instead of a copy of it.
PackageIntoState(signed) ==
    /\ pc = "package"
    /\ LET code_files == IF Has(state, "code_files") THEN state.code_files ELSE <<>>
           manifest ==
               [project_id |-> ProjectId, kind |-> state.kind,
                review_passed |-> Has(state, "review_passed") /\ state.review_passed,
                review_notes |-> Nullable(Has(state, "review_notes"), state.review_notes),
                image_prompts |-> IF Has(state, "image_prompts") THEN state.image_prompts
                                  ELSE <<>>]
           files == [p \in DOMAIN code_files \cup {"nexus.manifest.json"} |->
                        IF p = "nexus.manifest.json" THEN <<manifest>> ELSE code_files[p]]
           artifact_id == "a1"
           storage_path == <<state.owner_id, ProjectId, artifact_id>>
           final == [state EXCEPT
                        !.code_files = files,
                        !.artifact_storage_path = storage_path,
                        !.artifact_signed_url = IF signed = None THEN "" ELSE signed,
                        !.artifact_id = artifact_id,
                        !.has = @ \cup {"artifact_storage_path", "artifact_signed_url",
                                        "artifact_id"}]
       IN  /\ artifacts' = Append(artifacts, [id |-> artifact_id, storage_path |-> storage_path,
                                              zip |-> files, meta |-> manifest])
           /\ state' = final
           /\ PersistProjectState("completed", final)
           /\ events' = events \o
                <<sse("artifact", [artifact_id |-> artifact_id,
                                   signed_url |-> final.artifact_signed_url]),
                  sse("status", [message |-> "completed", project_id |-> ProjectId])>>
    /\ pc' = "done"
    /\ UNCHANGED <<keys, node, ci, last_err, calls, chain_out, exc>>
    /\ UNCHANGED others

\* event_stream after the graph ended: manifest, archive, artifact, final save.
Package(signed) ==
    /\ pc = "package"
    /\ LET code_files == IF Has(state, "code_files") THEN state.code_files ELSE <<>>
           manifest ==
               [project_id |-> ProjectId, kind |-> state.kind,
                review_passed |-> Has(state, "review_passed") /\ state.review_passed,
                review_notes |-> Nullable(Has(state, "review_notes"), state.review_notes),
                image_prompts |-> IF Has(state, "image_prompts") THEN state.image_prompts
                                  ELSE <<>>]
           files == [p \in DOMAIN code_files \cup {"nexus.manifest.json"} |->
                        IF p = "nexus.manifest.json" THEN <<manifest>> ELSE code_files[p]]
           artifact_id == "a1"
           storage_path == <<state.owner_id, ProjectId, artifact_id>>
           final == [state EXCEPT
                        !.artifact_storage_path = storage_path,
                        !.artifact_signed_url = IF signed = None THEN "" ELSE signed,
                        !.artifact_id = artifact_id,
                        !.has = @ \cup {"artifact_storage_path", "artifact_signed_url",
                                        "artifact_id"}]
       IN  /\ artifacts' = Append(artifacts, [id |-> artifact_id, storage_path |-> storage_path,
                                              zip |-> files, meta |-> manifest])
           /\ state' = final
           /\ PersistProjectState("completed", final)
           /\ events' = events \o
                <<sse("artifact", [artifact_id |-> artifact_id,
                                   signed_url |-> final.artifact_signed_url]),
                  sse("status", [message |-> "completed", project_id |-> ProjectId])>>
    /\ pc' = "done"
    /\ UNCHANGED <<keys, node, ci, last_err, calls, chain_out, exc>>
    /\ UNCHANGED others

Next ==
    \/ StreamStart
    \/ NodeStart
    \/ \E kind \in FailureKinds : CompletionRaises(kind)
    \/ \E out \in Responses(node) : CompletionReturns(out)
    \/ ChainExhausted
    \/ NodeEnd
    \/ RouteAfterReview
    \/ \E signed \in SignedUrls : Package(signed)

Spec == Init /\ [][Next]_vars

\* The run is scheduled until it ends: every await returns or raises.
FairSpec == Spec /\ WF_vars(Next)

-----------------------------------------------------------------------------
(* Observations used by the properties *)

\* How many times node n was started (its node_start events).
NodeStarts(n) ==
    Cardinality({i \in 1..Len(events) :
        /\ events[i].event = "node"
        /\ events[i].data.phase = "start"
        /\ events[i].data.node = n})

\* How many times node n completed (its timeline entries).
NodeRuns(n) ==
    Cardinality({i \in 1..Len(state.timeline) : state.timeline[i].node = n})

\* Every Reviewer execution so far set review_passed = false.
AllReviewsFailed ==
    \A i \in 1..Len(state.timeline) :
        state.timeline[i].node = "Reviewer" => ~state.timeline[i].pass

\* The graph reached END.
AtEnd == pc \in {"package", "done"}

ReviewPassed == Has(state, "review_passed") /\ state.review_passed

\* The chain of the node being executed.
Chain == node_kwargs[node]

-----------------------------------------------------------------------------
(* Properties *)

\* C1: a run started with iterations = 0 and max_iterations = 2 in which every
\* Reviewer execution fails the review executes the Planner exactly 3 times and
\* then ends at END with review_passed = false: never more than 3 Planner starts,
\* after the third failed review the graph is at END, and at END there were 3.
C1_PlannerRunsThreeTimes ==
    (state.max_iterations = DefaultMaxIterations /\ AllReviewsFailed) =>
        /\ NodeStarts("Planner") <= 3
        /\ (AtEnd => NodeStarts("Planner") = 3 /\ ~ReviewPassed)
        /\ (NodeRuns("Reviewer") = 3 /\ pc \notin {"node_end", "route"} => AtEnd)

C1_Witness ==
    /\ pc = "done"
    /\ state.max_iterations = DefaultMaxIterations
    /\ AllReviewsFailed
    /\ NodeStarts("Planner") = 3
    /\ project.status = "completed"

\* C2: the step after a Reviewer execution goes to the Planner and adds exactly 1
\* to iterations iff review_passed is false and iterations < max_iterations;
\* otherwise it goes to END and leaves iterations unchanged.  No other step
\* changes iterations.
C2_RouteRule ==
    [][/\ (pc = "node_end" /\ node = "Reviewer") => pc' = "route"
       /\ pc = "route" =>
            IF ~ReviewPassed /\ state.iterations < state.max_iterations
            THEN /\ pc' = "node_start" /\ node' = "Planner"
                 /\ state'.iterations = state.iterations + 1
            ELSE /\ pc' = "package"
                 /\ state'.iterations = state.iterations
       /\ pc # "route" => state'.iterations = state.iterations]_vars

C2_Witness ==
    /\ pc = "node_start" /\ node = "Planner"
    /\ state.iterations = 1
    /\ NodeRuns("Reviewer") = 1 /\ ~ReviewPassed

\* C3: in every reachable state 0 <= iterations <= max_iterations.
C3_IterationsInRange ==
    0 <= state.iterations /\ state.iterations <= state.max_iterations

C3_Witness ==
    /\ state.iterations = state.max_iterations
    /\ state.max_iterations = MaxCap
    /\ pc = "chain" /\ node = "Reviewer"

\* C4: with retry cap m, each of Planner, Coder, Designer and Reviewer is executed
\* at most m + 1 times, whatever the verdicts (at most 3 times with the cap 2).
C4_AtMostCapPlusOnePasses ==
    \A n \in {"Planner", "Coder", "Designer", "Reviewer"} :
        /\ NodeStarts(n) <= state.max_iterations + 1
        /\ (state.max_iterations = DefaultMaxIterations => NodeStarts(n) <= 3)

C4_Witness ==
    /\ state.max_iterations = DefaultMaxIterations
    /\ NodeStarts("Reviewer") = state.max_iterations + 1
    /\ NodeRuns("Reviewer") = state.max_iterations + 1
    /\ ReviewPassed

\* The most frames a run with retry cap m can yield: swarm_started, a start and an
\* end per node execution (Researcher once, the four others m + 1 times), and the
\* two closing frames.
MaxEvents(m) == 1 + 2 * (1 + 4 * (m + 1)) + 2

\* The run is over: at END after a Reviewer execution, or by an exception that
\* reached event_stream.
Terminated ==
    \/ /\ pc = "done"
       /\ state.timeline # <<>>
       /\ state.timeline[Len(state.timeline)].node = "Reviewer"
    \/ /\ pc = "failed"
       /\ exc # NoErr

\* C5: every run that keeps being scheduled terminates, at END after a Reviewer
\* execution or by a stage failure, whatever the providers answer; it yields at
\* most MaxEvents(max_iterations) frames on the way.
C5_RunTerminates ==
    /\ <>Terminated
    /\ [](Len(events) <= MaxEvents(state.max_iterations))

C5_Witness ==
    /\ pc = "failed"
    /\ node = "Coder"
    /\ state.iterations = 1
    /\ exc.type = "RuntimeError"

\* C6: when the first k models of the chain fail and model k + 1 succeeds, the
\* runner returns that model and its text, has called models 1..k+1 once each in
\* list order and no later model, and raises nothing.
C6_FirstSuccessWins ==
    chain_out.status = "returned" =>
        LET n == Len(calls) IN
        /\ 1 <= n /\ n <= Len(Chain)
        /\ \A i \in 1..n : calls[i].request.model = Chain[i]
        /\ \A i \in 1..(n - 1) : calls[i].raised
        /\ ~calls[n].raised
        /\ chain_out.model = Chain[n]
        /\ chain_out.out = calls[n].out
        /\ chain_out.err = NoErr

C6_Witness ==
    /\ chain_out.status = "returned"
    /\ pc = "node_end"
    /\ Len(calls) = 3
    /\ chain_out.model = Chain[3]

\* C7: when all models of the chain fail, the runner raises only after one call to
\* each model, in list order, and its error names the failure of the last model
\* and of no earlier one.
C7_AllFailedRaisesLastError ==
    chain_out.status = "raised" =>
        LET n == Len(Chain)
            msg == chain_out.err.msg
        IN  /\ Len(calls) = n
            /\ \A i \in 1..n : calls[i].request.model = Chain[i] /\ calls[i].raised
            /\ chain_out.err.type = "RuntimeError"
            /\ msg = <<"All models failed. Last error: ", calls[n].err.type, "(">>
                        \o calls[n].err.msg \o <<")">>
            /\ \E j \in 1..Len(msg) : msg[j] = Chain[n].name
            /\ \A i \in 1..(n - 1) : \A j \in 1..Len(msg) : msg[j] # Chain[i].name

C7_Witness ==
    /\ chain_out.status = "raised"
    /\ pc = "failed"
    /\ Len(calls) = Len(Chain)
    /\ calls[1].err.type # calls[Len(calls)].err.type

\* The key each provider's models are called with.
KeyNameOf ==
    [groq |-> "GROQ_API_KEY", openrouter |-> "OPENROUTER_API_KEY",
     gemini |-> "GOOGLE_API_KEY"]

\* C8 as claimed: no completion call is made for a model of a provider whose key
\* is absent.
C8_KeylessProviderSkipped ==
    \A i \in 1..Len(calls) :
        LET p == calls[i].request.model.provider IN
        p \in DOMAIN KeyNameOf => keys[KeyNameOf[p]] # None

\* C8 amended: no model is skipped; the calls made are the models of the chain in
\* list order whatever the keys, and the call for a model of a keyless provider
\* (and of ollama) is made with api_key = None.
C8_KeylessProviderCalledWithoutKey ==
    /\ Len(calls) <= Len(Chain)
    /\ (pc = "chain" => Len(calls) = ci - 1)
    /\ \A i \in 1..Len(calls) :
        LET p == calls[i].request.model.provider IN
        /\ calls[i].request.model = Chain[i]
        /\ calls[i].request.api_key =
              (IF p \in DOMAIN KeyNameOf THEN keys[KeyNameOf[p]] ELSE None)

C8_Witness ==
    /\ keys["GROQ_API_KEY"] = None
    /\ keys["GOOGLE_API_KEY"] # None
    /\ \E i \in 1..Len(calls) :
        /\ calls[i].request.model = model_groq
        /\ calls[i].request.api_key = None
        /\ calls[i].raised
        /\ i < Len(calls)

\* C9: after a stage raised, the run is over: the frames end with one error frame
\* carrying str(cause) and then status failed, the failing node was started and
\* has no node end, there is no other error frame, and no further step is taken.
C9_StageFailureStopsRun ==
    pc = "failed" =>
        LET n == Len(events) IN
        /\ n >= 3
        /\ exc # NoErr
        /\ events[n] = [event |-> "status",
                        data |-> [message |-> "failed", project_id |-> ProjectId]]
        /\ events[n - 1].event = "error"
        /\ events[n - 1].data.message = exc.msg
        /\ events[n - 2] = [event |-> "node", data |-> [phase |-> "start", node |-> node]]
        /\ Cardinality({i \in 1..n : events[i].event = "error"}) = 1
        /\ ~ENABLED Next

C9_Witness ==
    /\ pc = "failed"
    /\ node = "Designer"
    /\ exc.type = "JSONDecodeError"
    /\ events[Len(events) - 1].data.message = <<"Expecting value">>

\* How many node executions completed (node end frames).
NodeEnds ==
    Cardinality({i \in 1..Len(events) :
        events[i].event = "node" /\ events[i].data.phase = "end"})

\* C10: when a stage fails after at least one stage completed, the state saved
\* with status failed holds what the last completed stage returned (saved with
\* status running at its node end): every field but the retry counter is equal,
\* and the timeline has one entry per completed stage.
C10_FailedSaveKeepsCompletedWork ==
    [][(pc # "failed" /\ pc' = "failed" /\ NodeEnds > 0) =>
         /\ project.status = "running"
         /\ project'.status = "failed"
         /\ project'.swarm_state =
               [project.swarm_state EXCEPT !.iterations = state.iterations]
         /\ Len(project'.swarm_state.timeline) = NodeEnds]_vars

C10_Witness ==
    /\ pc = "failed"
    /\ project.status = "failed"
    /\ state.iterations = 1
    /\ Len(project.swarm_state.timeline) = 7
    /\ "review_notes" \in project.swarm_state.has

\* The frame is a closing status frame: a status whose message is completed or
\* failed.
IsFinalStatus(f) ==
    f.event = "status" /\ f.data.message \in {"completed", "failed"}

\* event_stream returned: nothing more is yielded.
StreamOver == pc \in {"done", "failed"}

\* C11: every event sequence of generate ends with a status frame whose message
\* is completed or failed, and nothing is yielded after it: every scheduled run
\* reaches the end of the stream, a finished stream's last frame is such a
\* status, a closing status is never followed by another frame, and once it is
\* yielded the sequence never changes.
C11_StreamEndsWithFinalStatus ==
    /\ <>StreamOver
    /\ [](StreamOver => events # <<>> /\ IsFinalStatus(events[Len(events)]))
    /\ [](\A i \in 1..Len(events) : IsFinalStatus(events[i]) => i = Len(events))
    /\ [][(events # <<>> /\ IsFinalStatus(events[Len(events)])) => events' = events]_vars

C11_Witness ==
    /\ pc = "failed"
    /\ NodeEnds = 3
    /\ events[Len(events)] = sse("status", [message |-> "failed", project_id |-> ProjectId])
    /\ events[Len(events) - 1].event = "error"

\* Frame i of the stream is the node frame of the given phase.
IsNodeFrame(i, phase) ==
    events[i].event = "node" /\ events[i].data.phase = phase

\* C12: each stage execution is announced by a node start frame before the stage
\* runs and, once it completed, by a node end frame of the same stage: while a
\* stage runs the last frame is its start, every node end directly follows the
\* start of the same stage, a start is followed by nothing but the end of its
\* stage (or the error of its failure), and every completed execution has its
\* end frame.
C12_StartThenEndOfSameStage ==
    /\ pc \in {"chain", "node_end"} =>
           /\ events # <<>>
           /\ events[Len(events)] = sse("node", [phase |-> "start", node |-> node])
    /\ \A i \in 1..Len(events) :
           IsNodeFrame(i, "end") =>
               /\ i > 1
               /\ events[i - 1] =
                      sse("node", [phase |-> "start", node |-> events[i].data.node])
    /\ \A i \in 1..(Len(events) - 1) :
           IsNodeFrame(i, "start") =>
               \/ IsNodeFrame(i + 1, "end") /\ events[i + 1].data.node = events[i].data.node
               \/ events[i + 1].event = "error"
    /\ NodeEnds = Len(state.timeline) - (IF pc = "node_end" THEN 1 ELSE 0)

C12_Witness ==
    /\ pc = "done"
    /\ state.iterations = 1
    /\ NodeEnds = 9
    /\ IsNodeFrame(Len(events) - 2, "end")
    /\ events[Len(events) - 3] = sse("node", [phase |-> "start", node |-> "Reviewer"])

\* The stages in the order they were started (the nodes of the start frames).
StartedNodes ==
    LET IsStart(f) == f.event = "node" /\ f.data.phase = "start"
        st == SelectSeq(events, IsStart)
    IN  [i \in 1..Len(st) |-> st[i].data.node]

\* C13: stages run one at a time in the fixed order of the graph: the first
\* stage started is the Researcher; the stage started after the Researcher is
\* the Planner, after the Planner the Coder, after the Coder the Designer, after
\* the Designer the Reviewer, and after the Reviewer it is the Planner or none
\* (END, which only follows a Reviewer execution); a stage is started only when
\* every stage started before it has ended, so at most one is in progress.
C13_FixedOrderOneAtATime ==
    LET n == Len(StartedNodes) IN
    /\ n > 0 => StartedNodes[1] = "Researcher"
    /\ pc \notin {"init", "node_start"} => n > 0
    /\ \A i \in 1..(n - 1) :
           StartedNodes[i + 1] =
               CASE StartedNodes[i] = "Researcher" -> "Planner"
                 [] StartedNodes[i] = "Planner"    -> "Coder"
                 [] StartedNodes[i] = "Coder"      -> "Designer"
                 [] StartedNodes[i] = "Designer"   -> "Reviewer"
                 [] StartedNodes[i] = "Reviewer"   -> "Planner"
    /\ pc \in {"route", "package", "done"} => StartedNodes[n] = "Reviewer"
    /\ n - NodeEnds = (IF pc \in {"chain", "node_end", "failed"} THEN 1 ELSE 0)
    /\ pc \in {"chain", "node_end"} => StartedNodes[n] = node

C13_Witness ==
    /\ pc = "done"
    /\ Len(StartedNodes) = 9
    /\ StartedNodes[5] = "Reviewer"
    /\ StartedNodes[6] = "Planner"
    /\ StartedNodes[9] = "Reviewer"

\* C14: after a full run (the graph reached END) the timeline has one entry per
\* stage execution, every repeated pass counted once: as many entries as stages
\* were started, and for each stage as many entries as starts of that stage; the
\* state saved as completed holds the same timeline.
C14_TimelineCountsExecutions ==
    pc \in {"package", "done"} =>
        /\ Len(state.timeline) = Len(StartedNodes)
        /\ \A n \in Nodes : NodeRuns(n) = NodeStarts(n)
        /\ Len(state.timeline) = 1 + 4 * (state.iterations + 1)
        /\ pc = "done" => project.swarm_state.timeline = state.timeline

C14_Witness ==
    /\ pc = "done"
    /\ state.iterations = 2
    /\ Len(state.timeline) = 13
    /\ NodeRuns("Researcher") = 1
    /\ NodeRuns("Coder") = 3

\* Sequence a is a prefix of sequence b.
IsPrefix(a, b) == Len(a) <= Len(b) /\ SubSeq(b, 1, Len(a)) = a

\* C15: within a run the timeline only grows: in every step the timeline before
\* the step is a prefix of the timeline after it (no entry is removed, reordered
\* or rewritten), a step adds at most one entry, and each saved timeline is a
\* prefix of the next one saved.
C15_TimelineOnlyGrows ==
    [][/\ IsPrefix(state.timeline, state'.timeline)
       /\ Len(state'.timeline) <= Len(state.timeline) + 1
       /\ (pc # "init" => IsPrefix(project.swarm_state.timeline,
                                   project'.swarm_state.timeline))]_vars

C15_Witness ==
    /\ pc = "node_end"
    /\ node = "Planner"
    /\ state.iterations = 1
    /\ Len(state.timeline) = 6
    /\ state.timeline[5].node = "Reviewer"
    /\ Len(project.swarm_state.timeline) = 5

\* The state as the stage that completed last left it: the router's increment
\* of the retry counter (on the way back to the Planner) comes after it.
StateAfterLastStage ==
    [state EXCEPT !.iterations =
        IF pc = "node_start" /\ node = "Planner" /\ NodeEnds > 1 THEN @ - 1 ELSE @]

\* C16: the state is saved after every stage: the step that follows the
\* completion of a stage saves, once and with status running, the state as that
\* stage returned it; no other step before the next stage starts or the run
\* ends saves anything, so between a completed stage and the next start (or the
\* end of the graph) the project row holds that state with status running, and
\* there is one running save per completed stage besides the initial one.
C16_SavedAfterEveryStage ==
    /\ [][(pc = "node_end" =>
               /\ saves' = Append(saves, "running")
               /\ project' = [status |-> "running", swarm_state |-> state]
               /\ state' = state)
          /\ ((pc \in {"node_start", "chain", "route"} /\ pc' # "failed") =>
               UNCHANGED <<saves, project>>)]_vars
    /\ []((pc \in {"node_start", "route", "package"} /\ NodeEnds > 0) =>
            /\ project = [status |-> "running", swarm_state |-> StateAfterLastStage]
            /\ saves = [i \in 1..(NodeEnds + 1) |-> "running"])

C16_Witness ==
    /\ pc = "node_start"
    /\ node = "Planner"
    /\ state.iterations = 1
    /\ project.status = "running"
    /\ project.swarm_state.iterations = 0
    /\ project.swarm_state.timeline = state.timeline
    /\ Len(saves) = 6

-----------------------------------------------------------------------------
(* node_review applied to states and judgments drawn from bounded sets: the  *)
(* state as the Designer leaves it, with the files a Coder response may hold, *)
(* and what the review chain may end with.                                    *)

\* The most file records in a Coder response.
MaxFiles == 2

ReviewPaths == {"README.md", "docs/README.md", "main.py"}

\* File contents, as the words the deny-list check can tell apart: plain text,
\* text with a deny-listed name in it, and the lower-case spelling of one (which
\* the case-sensitive check does not match).
ReviewContents ==
    { <<"run", "it">>,
      <<"key", "=", "STRIPE_SECRET_KEY">>,
      <<"SUPABASE_SERVICE_ROLE_KEY">>,
      <<"stripe_secret_key">> }

\* The "files" lists of a Coder response: 1..MaxFiles records with path and content.
ReviewFileLists ==
    UNION { [1..n -> [path : ReviewPaths, content : ReviewContents]] : n \in 1..MaxFiles }

\* The responses of a review model: objects with and without the keys pass and
\* notes (two of them with a note that reads like a placeholder of node_review),
\* an object wrapped in prose, a scalar, and text that is no JSON.
ReviewRaws ==
    { Object([pass |-> TRUE, notes |-> <<>>]),
      Object([pass |-> FALSE, notes |-> <<"OK">>]),
      Object([pass |-> TRUE, notes |-> <<" ", "Needs fixes">>]),
      Object([pass |-> FALSE, notes |-> <<>>]),
      Object([pass |-> TRUE, notes |-> <<"rename", "x">>]),
      Object([pass |-> FALSE, notes |-> <<" ", "add", "tests", " ">>]),
      Object([pass |-> FALSE, notes |-> <<" ">>]),
      Object([notes |-> <<"looks", "fine">>]),
      Object([pass |-> TRUE]),
      <<Tok("prose")>> \o Object([pass |-> FALSE, notes |-> <<"no", "tests">>])
          \o <<Tok("prose")>>,
      <<Tok("{"), Tok("}")>>,
      <<Tok("scalar")>>,
      <<Tok("prose")>> }

\* What _try_models_one_shot ends with in node_review: a response of the first
\* model, or the error of the exhausted chain.
ReviewChainOuts ==
    { ChainReturn(_model_chains.review, 1, raw) : raw \in ReviewRaws }
        \cup { ChainRaise(CompletionError(model_ollama, kind)) : kind \in FailureKinds }

\* The state node_review receives in the first pass, when the Coder's response
\* held the given list of files.
ReviewEntry(list) ==
    LET s0 == InitialState(DefaultMaxIterations)
        s1 == node_research(s0, ChainReturn(_model_chains.research, 1, <<Tok("prose")>>)).state
        s2 == node_plan(s1, ChainReturn(_model_chains.plan, 1, <<Tok("prose")>>)).state
        s3 == node_code(s2, ChainReturn(_model_chains.code, 1, Object([files |-> list]))).state
    IN  node_design(s3, ChainReturn(_model_chains.design, 1,
                                    Object([image_prompts |-> <<JStr("hero")>>]))).state

ReviewInit ==
    /\ keys = [k \in KeyNames |-> "key"]
    /\ state \in {ReviewEntry(list) : list \in ReviewFileLists}
    /\ pc = "review_in"
    /\ node = "Reviewer"
    /\ ci = 1
    /\ last_err = NoErr
    /\ calls = <<>>
    /\ chain_out \in ReviewChainOuts
    /\ exc = NoErr
    /\ events = <<>>
    /\ project = [status |-> "running", swarm_state |-> <<>>]
    /\ saves = <<>>
    /\ artifacts = <<>>
    /\ swarm = SwarmIdle
    /\ limiter = NewLimiter(1)
    /\ pipeline = PipelineIdle

\* node_review(state, ...) with its chain run ending with chain_out.
ReviewApply ==
    /\ pc = "review_in"
    /\ LET res == node_review(state, chain_out) IN
       /\ state' = res.state
       /\ exc' = res.err
       /\ pc' = IF res.raised THEN "review_raised" ELSE "review_out"
    /\ UNCHANGED <<keys, node, ci, last_err, calls, chain_out, events, project, saves,
                   artifacts>>
    /\ UNCHANGED others

ReviewNext == ReviewApply

ReviewSpec == ReviewInit /\ [][ReviewNext]_vars

\* The inputs of the Reviewer as the properties read them.
HasReadme == "README.md" \in DOMAIN state.code_files

HasDenied ==
    \E p \in DOMAIN state.code_files : \E i \in 1..Len(state.code_files[p]) :
        state.code_files[p][i] \in {"SUPABASE_SERVICE_ROLE_KEY", "STRIPE_SECRET_KEY"}

\* The LLM judgment: the parsed response of the review chain, when there is one.
Judgment ==
    IF chain_out.status = "returned" THEN _safe_json_loads(chain_out.out)
    ELSE [ok |-> FALSE, isdict |-> FALSE, value |-> <<>>]

\* The judgment is there: the chain returned a response that parses as an object.
JudgmentValid == Judgment.ok /\ Judgment.isdict

LlmSaysFail ==
    JudgmentValid /\ "pass" \in DOMAIN Judgment.value /\ ~Judgment.value.pass

\* The note of the judgment, without the whitespace around it.
LlmNote ==
    IF JudgmentValid /\ "notes" \in DOMAIN Judgment.value
    THEN StripWords(Judgment.value.notes) ELSE <<>>

\* C17: the Reviewer sets review_passed to true iff both deterministic checks
\* pass (README.md among the files, no deny-listed name in them) and the LLM
\* judgment does not say fail; review_notes is the notes of both sources put
\* together, the local ones first, joined with "; " (when neither source has a
\* note it is the placeholder of the verdict, OK or Needs fixes).
C17_VerdictIsConjunction ==
    pc = "review_out" =>
        LET parts == (IF ~HasReadme THEN << <<"Missing README.md">> >> ELSE <<>>)
                     \o (IF HasDenied
                         THEN << <<"Hardcoded secret-looking env var name found. Use .env, never inline secrets.">> >>
                         ELSE <<>>)
                     \o (IF LlmNote # <<>> THEN <<LlmNote>> ELSE <<>>)
            joined[i \in 1..Len(parts)] ==
                IF i = 1 THEN parts[1] ELSE joined[i - 1] \o <<"; ">> \o parts[i]
        IN  /\ state.review_passed = (HasReadme /\ ~HasDenied /\ ~LlmSaysFail)
            /\ state.review_notes =
                   IF parts # <<>> THEN joined[Len(parts)]
                   ELSE IF state.review_passed THEN <<"OK">> ELSE <<"Needs fixes">>
            /\ {"review_passed", "review_notes"} \subseteq state.has

C17_Witness ==
    /\ pc = "review_out"
    /\ ~HasReadme
    /\ HasDenied
    /\ JudgmentValid
    /\ ~LlmSaysFail
    /\ ~state.review_passed
    /\ state.review_notes =
          <<"Missing README.md", "; ",
            "Hardcoded secret-looking env var name found. Use .env, never inline secrets.",
            "; ", "rename", "x">>

\* C18: when the LLM judgment of the Reviewer fails (every model of the review
\* chain failed, or the response is no JSON object) the Reviewer still
\* completes: the run has not failed, review_passed is the deterministic verdict
\* alone (README.md present and no deny-listed name), the Reviewer's timeline
\* entry is appended with that verdict; and no run ever fails in the Reviewer.
C18_ReviewerSurvivesLlmFailure ==
    /\ (node = "Reviewer" /\ chain_out.status # "running" /\ ~JudgmentValid) =>
           /\ pc = "node_end"
           /\ exc = NoErr
           /\ state.review_passed = (HasReadme /\ ~HasDenied)
           /\ state.timeline[Len(state.timeline)] =
                  [node |-> "Reviewer", event |-> "done", pass |-> HasReadme /\ ~HasDenied]
           /\ NodeRuns("Reviewer") = NodeStarts("Reviewer")
           /\ ENABLED NodeEnd
    /\ pc = "failed" => node # "Reviewer"

C18_Witness ==
    /\ pc = "node_end"
    /\ node = "Reviewer"
    /\ chain_out.status = "raised"
    /\ chain_out.err.type = "RuntimeError"
    /\ Len(calls) = Len(_model_chains.review)
    /\ HasReadme
    /\ state.review_passed
    /\ state.review_notes = <<"OK">>

\* C19: whenever the files have no entry with the path README.md, the Reviewer
\* sets review_passed to false whatever the LLM judgment is (pass, fail,
\* malformed or unavailable), review_notes contains "Missing README.md", and the
\* Reviewer's timeline entry records the failed verdict.
C19_MissingReadmeFails ==
    (pc = "review_out" /\ ~HasReadme) =>
        /\ ~state.review_passed
        /\ \E i \in 1..Len(state.review_notes) : state.review_notes[i] = "Missing README.md"
        /\ state.review_notes[1] = "Missing README.md"
        /\ ~state.timeline[Len(state.timeline)].pass

C19_Witness ==
    /\ pc = "review_out"
    /\ ~HasReadme
    /\ "docs/README.md" \in DOMAIN state.code_files
    /\ ~HasDenied
    /\ JudgmentValid
    /\ "pass" \in DOMAIN Judgment.value
    /\ Judgment.value.pass
    /\ ~state.review_passed
    /\ state.review_notes = <<"Missing README.md">>

\* C20: given files with a README.md and no deny-listed name, and an LLM
\* judgment of pass = true with empty notes, the Reviewer sets review_passed to
\* true and review_notes to exactly "OK".
C20_CleanReviewIsOK ==
    (/\ pc = "review_out"
     /\ HasReadme
     /\ ~HasDenied
     /\ JudgmentValid
     /\ "pass" \in DOMAIN Judgment.value
     /\ Judgment.value.pass
     /\ "notes" \in DOMAIN Judgment.value
     /\ Judgment.value.notes = <<>>) =>
        /\ state.review_passed
        /\ state.review_notes = <<"OK">>
        /\ state.timeline[Len(state.timeline)] =
               [node |-> "Reviewer", event |-> "done", pass |-> TRUE]

C20_Witness ==
    /\ pc = "review_out"
    /\ DOMAIN state.code_files = {"README.md", "main.py"}
    /\ state.code_files["main.py"] = <<"stripe_secret_key">>
    /\ chain_out.out = Object([pass |-> TRUE, notes |-> <<>>])
    /\ state.review_passed
    /\ state.review_notes = <<"OK">>

\* The response is a JSON object whose file list has no record with both a path
\* and a content.
NoFilesIn(out) ==
    LET data == _safe_json_loads(out)
        list == IF "files" \in DOMAIN data.value THEN data.value.files ELSE <<>>
    IN  /\ data.ok
        /\ data.isdict
        /\ \A i \in 1..Len(list) :
               ~("path" \in DOMAIN list[i] /\ "content" \in DOMAIN list[i])

\* C21: when the file list parsed from the Coder's response is empty (no record
\* with both path and content) the Coder fails with "Coder returned no files.":
\* the step that receives the response ends the run as failed without another
\* model being called and leaves the state (code_files included) as it was; the
\* run stays failed, and the Designer and the Reviewer were not started in that
\* pass.
C21_EmptyFileListAbortsRun ==
    /\ [][(pc = "chain" /\ node = "Coder" /\ chain_out'.status = "returned"
             /\ NoFilesIn(chain_out'.out)) =>
               /\ pc' = "failed"
               /\ exc' = RuntimeError(<<"Coder returned no files.">>)
               /\ state' = state
               /\ Len(calls') = Len(calls) + 1
               /\ project' = [status |-> "failed", swarm_state |-> state]]_vars
    /\ []((pc = "failed" /\ node = "Coder") =>
            /\ ~ENABLED Next
            /\ NodeStarts("Designer") = NodeStarts("Coder") - 1
            /\ NodeStarts("Reviewer") = NodeStarts("Coder") - 1
            /\ NodeRuns("Coder") = NodeStarts("Coder") - 1)

C21_Witness ==
    /\ pc = "failed"
    /\ node = "Coder"
    /\ chain_out.status = "returned"
    /\ chain_out.out = Object([files |-> <<[path |-> "main.py"]>>])
    /\ exc = RuntimeError(<<"Coder returned no files.">>)
    /\ state.iterations = 1
    /\ NodeStarts("Coder") = 2
    /\ DOMAIN state.code_files = {"app.py", "main.py"}

-----------------------------------------------------------------------------
(* The swarm and the rate limiter on their own: the generation workflow is   *)
(* at rest while they run.                                                    *)

\* The workflow before any request.
WorkflowIdle ==
    /\ keys = [k \in KeyNames |-> None]
    /\ state = InitialState(DefaultMaxIterations)
    /\ pc = "idle"
    /\ node = "Researcher"
    /\ ci = 1
    /\ last_err = NoErr
    /\ calls = <<>>
    /\ chain_out = NoChainOut
    /\ exc = NoErr
    /\ events = <<>>
    /\ project = [status |-> "running", swarm_state |-> <<>>]
    /\ saves = <<>>
    /\ artifacts = <<>>

\* A HybridSwarm with any of the three keys set or not.
SwarmInit ==
    /\ WorkflowIdle
    /\ limiter = NewLimiter(1)
    /\ pipeline = PipelineIdle
    /\ swarm \in {[SwarmIdle EXCEPT !.groq_key = g, !.openrouter_key = o, !.google_key = k] :
                    g \in {"", "gsk"}, o \in {"", "sk-or"}, k \in {"", "AIza"}}

SwarmNext ==
    \/ SwarmCall
    \/ \E p \in {"groq", "openrouter", "gemini"} :
          \E r \in {CallOk(p), CallError("error 500")} : CallFinishes(p, r)
    \/ SwarmReturns

SwarmSpec == SwarmInit /\ [][SwarmNext]_vars

\* The providers whose key is set.
Configured == {p \in {"groq", "openrouter", "gemini"} : SwarmKey(swarm, p) # ""}

\* The providers whose call returned without an error.
Succeeded == {p \in Configured : "error" \notin swarm.result[p].has /\ swarm.result[p].has # {}}

\* C22: in swarm mode every provider with a key is called, the calls are in
\* flight together (any of them may return next), and the result is chosen only
\* when all have returned; the winner is the first provider in the order groq,
\* openrouter, gemini whose call returned no error, whichever returned first,
\* and it is tagged swarm_mode = true with candidates = the number of calls
\* that returned no error.
C22_SwarmPicksFirstInListOrder ==
    /\ swarm.pc # "idle" => {swarm.tasks[i] : i \in 1..Len(swarm.tasks)} = Configured
    /\ swarm.pc = "gathering" =>
           /\ swarm.out = CallPending
           /\ \A p \in Configured :
                  (\A i \in 1..Len(swarm.arrived) : swarm.arrived[i] # p)
                      => ENABLED CallFinishes(p, CallOk(p))
    /\ swarm.pc = "returned" =>
           /\ {swarm.arrived[i] : i \in 1..Len(swarm.arrived)} = Configured
           /\ Succeeded # {} =>
                  /\ swarm.out.provider =
                         (IF "groq" \in Succeeded THEN "groq"
                          ELSE IF "openrouter" \in Succeeded THEN "openrouter"
                          ELSE "gemini")
                  /\ {"swarm_mode", "candidates"} \subseteq swarm.out.has
                  /\ "error" \notin swarm.out.has
                  /\ swarm.out.swarm_mode
                  /\ swarm.out.candidates = Cardinality(Succeeded)
           /\ Succeeded = {} =>
                  /\ "error" \in swarm.out.has
                  /\ "swarm_mode" \notin swarm.out.has

C22_Witness ==
    /\ swarm.pc = "returned"
    /\ swarm.arrived = <<"gemini", "openrouter", "groq">>
    /\ Succeeded = {"openrouter", "gemini"}
    /\ swarm.out.provider = "openrouter"
    /\ swarm.out.candidates = 2
    /\ swarm.out.swarm_mode

\* A limiter constructed with any rpm setting from 0 up.
LimiterInit ==
    /\ WorkflowIdle
    /\ swarm = SwarmIdle
    /\ limiter \in {NewLimiter(rpm) : rpm \in 0..MaxRpm}
    /\ pipeline = PipelineIdle

LimiterNext ==
    \/ \E d \in TickSteps : Tick(d)
    \/ \E key \in ClientKeys : check(key)

LimiterSpec == LimiterInit /\ [][LimiterNext]_vars

\* The requests of the key that were accepted among the first n checked and are
\* not older than the window at time t.
AcceptedInWindow(key, n, t) ==
    {j \in 1..n : /\ limiter.log[j].key = key
                  /\ limiter.log[j].status # 429
                  /\ t - limiter.log[j].at <= window_sec}

\* C23: for every client key at most rpm requests are accepted within any
\* window of 60 seconds (it suffices to look at the windows that end at an
\* accepted request), and a request is rejected with status 429 exactly when
\* rpm accepted requests of its key are still inside the window when it is
\* checked; the deque of a key holds exactly the times of those requests.
C23_AtMostRpmPerWindow ==
    /\ limiter.rpm >= 1
    /\ \A i \in 1..Len(limiter.log) :
           LET e == limiter.log[i] IN
           /\ e.status # 429 =>
                  Cardinality(AcceptedInWindow(e.key, i, e.at)) <= limiter.rpm
           /\ e.status = 429 <=>
                  Cardinality(AcceptedInWindow(e.key, i - 1, e.at)) = limiter.rpm
           /\ Cardinality(AcceptedInWindow(e.key, i - 1, e.at)) <= limiter.rpm
    /\ \A key \in ClientKeys :
           Len(limiter.hits[key]) <= limiter.rpm

C23_Witness ==
    /\ limiter.rpm = 2
    /\ Len(limiter.log) = 4
    /\ limiter.log[1] = [key |-> "unknown", at |-> 0, status |-> 200]
    /\ limiter.log[2] = [key |-> "unknown", at |-> 30, status |-> 200]
    /\ limiter.log[3] = [key |-> "unknown", at |-> 60, status |-> 429]
    /\ limiter.log[4] = [key |-> "unknown", at |-> 91, status |-> 200]
    /\ limiter.hits["unknown"] = <<91>>

\* C24: the Researcher runs exactly once per run and no stage is run again
\* because of an error: a stage is started once per pass (the Researcher in the
\* first pass only, the others once more per failed review that was routed back,
\* which is what iterations counts), every start but the one in progress or the
\* one that failed has completed, a stage calls each model of its chain at most
\* once, and a failed run starts nothing more.
C24_NoRetryOnError ==
    /\ NodeStarts("Researcher") <= 1
    /\ (pc \notin {"init", "node_start"} \/ node # "Researcher") =>
           NodeStarts("Researcher") = 1
    /\ \A n \in Nodes \ {"Researcher"} : NodeStarts(n) <= state.iterations + 1
    /\ \A n \in Nodes :
           NodeStarts(n) - NodeRuns(n) =
               (IF node = n /\ (pc = "chain" \/ (pc = "failed" /\ exc # NoErr))
                THEN 1 ELSE 0)
    /\ Len(calls) <= Len(Chain)
    /\ pc = "failed" => ~ENABLED Next

C24_Witness ==
    /\ pc = "failed"
    /\ node = "Planner"
    /\ state.iterations = 2
    /\ NodeStarts("Researcher") = 1
    /\ NodeStarts("Planner") = 3
    /\ NodeRuns("Planner") = 2
    /\ NodeStarts("Reviewer") = 2

\* C25: the prompt of a run is never modified, and neither are kind and
\* max_iterations: no step changes them, in every state they are what the
\* initial state of the request held, and every saved state holds them too.
C25_InputsAreImmutable ==
    /\ [][/\ state'.prompt = state.prompt
           /\ state'.kind = state.kind
           /\ state'.max_iterations = state.max_iterations]_vars
    /\ [](/\ state.prompt = InitialState(state.max_iterations).prompt
           /\ state.kind = InitialState(state.max_iterations).kind
           /\ state.max_iterations \in 0..MaxCap
           /\ saves # <<>> =>
                  /\ project.swarm_state.prompt = state.prompt
                  /\ project.swarm_state.kind = state.kind
                  /\ project.swarm_state.max_iterations = state.max_iterations)

C25_Witness ==
    /\ pc = "done"
    /\ state.iterations = 2
    /\ Len(state.timeline) = 13
    /\ state.prompt = "build a todo app"
    /\ state.kind = "webapp"
    /\ state.max_iterations = 2
    /\ project.swarm_state.prompt = "build a todo app"

\* The sections of the plan that start with the given heading.
PlanSections(heading) ==
    Cardinality({i \in 1..Len(state.plan) : state.plan[i] = Lit(heading)})

\* C26: every Planner execution extends the plan: the plan before it is a
\* proper prefix of the plan after it, so after every execution (re-entries
\* after a failed review included) the plan still starts with the research
\* notes and holds one plan section per Planner execution so far.
C26_PlannerExtendsPlan ==
    /\ [][(pc = "chain" /\ node = "Planner" /\ pc' = "node_end") =>
             /\ IsPrefix(state.plan, state'.plan)
             /\ Len(state'.plan) > Len(state.plan)
             /\ state'.plan[Len(state.plan) + 1] = Lit("[Plan]\n")]_vars
    /\ [](NodeRuns("Planner") > 0 =>
             /\ state.plan[1] = Lit("[Research Notes]\n")
             /\ PlanSections("[Research Notes]\n") = 1
             /\ PlanSections("[Plan]\n") = NodeRuns("Planner"))

C26_Witness ==
    /\ pc = "node_end"
    /\ node = "Planner"
    /\ state.iterations = 2
    /\ NodeRuns("Planner") = 3
    /\ PlanSections("[Plan]\n") = 3
    /\ state.plan[1] = Lit("[Research Notes]\n")

\* C27: whenever a file content holds one of the deny-listed names
\* SUPABASE_SERVICE_ROLE_KEY or STRIPE_SECRET_KEY, the Reviewer sets
\* review_passed to false, whatever the LLM judgment is and whether or not there
\* is a README.md; the note about the secret is among the review notes and the
\* timeline entry records the failed verdict.
C27_DeniedNameFailsReview ==
    (pc = "review_out" /\ HasDenied) =>
        /\ ~state.review_passed
        /\ \E i \in 1..Len(state.review_notes) :
               state.review_notes[i] =
                   "Hardcoded secret-looking env var name found. Use .env, never inline secrets."
        /\ ~state.timeline[Len(state.timeline)].pass

C27_Witness ==
    /\ pc = "review_out"
    /\ DOMAIN state.code_files = {"README.md", "main.py"}
    /\ state.code_files["README.md"] = <<"run", "it">>
    /\ state.code_files["main.py"] = <<"key", "=", "STRIPE_SECRET_KEY">>
    /\ chain_out.out = Object([pass |-> TRUE, notes |-> <<>>])
    /\ ~state.review_passed
    /\ state.review_notes =
          <<"Hardcoded secret-looking env var name found. Use .env, never inline secrets.">>

-----------------------------------------------------------------------------
(* node_design applied to the provider responses of a bounded set.           *)

\* The longest image_prompts list of a Designer response.
MaxPrompts == 4

PromptEntries == {JStr("hero"), JStr("icon"), JNum("7")}

\* The image_prompts lists of a Designer response: 0..MaxPrompts entries.
PromptLists == UNION { [1..n -> PromptEntries] : n \in 0..MaxPrompts }

\* The responses of a design model: an object with an image_prompts list, bare
\* or wrapped in prose, an object without the key, and text that is no JSON.
DesignRaws ==
    { Object([image_prompts |-> list]) : list \in PromptLists }
        \cup { <<Tok("prose")>> \o Object([image_prompts |-> list]) \o <<Tok("prose")>> :
                 list \in {<<JStr("icon"), JNum("7"), JStr("hero"), JStr("icon")>>} }
        \cup { Object([style |-> <<JStr("flat")>>]), <<Tok("prose")>> }

\* The state node_design receives in the first pass.
DesignEntry ==
    LET s0 == InitialState(DefaultMaxIterations)
        s1 == node_research(s0, ChainReturn(_model_chains.research, 1, <<Tok("prose")>>)).state
        s2 == node_plan(s1, ChainReturn(_model_chains.plan, 1, <<Tok("prose")>>)).state
    IN  node_code(s2, ChainReturn(_model_chains.code, 1,
                                  Object([files |-> <<ReadmeFile, MainFile>>]))).state

DesignInit ==
    /\ keys = [k \in KeyNames |-> "key"]
    /\ state = DesignEntry
    /\ pc = "design_in"
    /\ node = "Designer"
    /\ ci = 1
    /\ last_err = NoErr
    /\ calls = <<>>
    /\ chain_out \in {ChainReturn(_model_chains.design, 1, raw) : raw \in DesignRaws}
    /\ exc = NoErr
    /\ events = <<>>
    /\ project = [status |-> "running", swarm_state |-> <<>>]
    /\ saves = <<>>
    /\ artifacts = <<>>
    /\ swarm = SwarmIdle
    /\ limiter = NewLimiter(1)
    /\ pipeline = PipelineIdle

\* node_design(state, ...) with its chain run ending with chain_out.
DesignApply ==
    /\ pc = "design_in"
    /\ LET res == node_design(state, chain_out) IN
       /\ state' = res.state
       /\ exc' = res.err
       /\ pc' = IF res.raised THEN "design_raised" ELSE "design_out"
    /\ UNCHANGED <<keys, node, ci, last_err, calls, chain_out, events, project, saves,
                   artifacts, others>>

DesignNext == DesignApply

DesignSpec == DesignInit /\ [][DesignNext]_vars

\* The image_prompts list of the provider's response (empty without the key).
ProviderPrompts ==
    LET data == _safe_json_loads(chain_out.out) IN
    IF data.ok /\ data.isdict /\ "image_prompts" \in DOMAIN data.value
    THEN data.value.image_prompts ELSE <<>>

\* The claim as the specification words it: the entries of image_prompts are
\* the first entries of the provider's list themselves.
C28_EntriesAreProviderEntries ==
    pc = "design_out" =>
        /\ Len(state.image_prompts) <= 3
        /\ \A i \in 1..Len(state.image_prompts) :
               state.image_prompts[i] = ProviderPrompts[i]

\* C28: after every Designer execution image_prompts has at most 3 entries: as
\* many as the provider's list has, up to 3, and entry i is the string form
\* str() of entry i of the provider's list (a string entry is kept as it is, a
\* number becomes the string of its digits), in the same order.
C28_AtMostThreeStringified ==
    pc = "design_out" =>
        /\ Len(state.image_prompts) <= 3
        /\ Len(state.image_prompts) =
               (IF Len(ProviderPrompts) < 3 THEN Len(ProviderPrompts) ELSE 3)
        /\ \A i \in 1..Len(state.image_prompts) :
               /\ state.image_prompts[i].t = "str"
               /\ state.image_prompts[i].v = ProviderPrompts[i].v
               /\ ProviderPrompts[i].t = "str" => state.image_prompts[i] = ProviderPrompts[i]
        /\ state.timeline[Len(state.timeline)] =
               [node |-> "Designer", event |-> "done", count |-> Len(state.image_prompts)]

C28_Witness ==
    /\ pc = "design_out"
    /\ ProviderPrompts = <<JStr("icon"), JNum("7"), JStr("hero"), JStr("icon")>>
    /\ state.image_prompts = <<JStr("icon"), JStr("7"), JStr("hero")>>

\* C29: packaging has no side effect on the workflow state: the step that builds
\* and stores the archive leaves code_files as it was, which is what the last
\* Coder execution produced (only a completing Coder changes code_files); the
\* nexus.manifest.json entry is in the packaged copy only, next to the unchanged
\* files; and no other field of the state changes, but for the three artifact
\* references event_stream records once the archive is stored.
C29_PackagingLeavesStateAlone ==
    [][/\ (pc = "package" /\ pc' = "done") =>
            LET zip == artifacts'[Len(artifacts')].zip IN
            /\ state'.code_files = state.code_files
            /\ "nexus.manifest.json" \notin DOMAIN state'.code_files
            /\ DOMAIN zip = DOMAIN state.code_files \cup {"nexus.manifest.json"}
            /\ \A f \in DOMAIN state.code_files : zip[f] = state.code_files[f]
            /\ state' = [state EXCEPT
                            !.artifact_storage_path = state'.artifact_storage_path,
                            !.artifact_signed_url = state'.artifact_signed_url,
                            !.artifact_id = state'.artifact_id,
                            !.has = @ \cup {"artifact_storage_path", "artifact_signed_url",
                                            "artifact_id"}]
       /\ (state'.code_files # state.code_files) =>
            (pc = "chain" /\ node = "Coder" /\ pc' = "node_end")]_vars

C29_Witness ==
    /\ pc = "done"
    /\ state.iterations = 1
    /\ DOMAIN state.code_files = {"app.py", "main.py"}
    /\ Len(artifacts) = 1
    /\ DOMAIN artifacts[1].zip = {"app.py", "main.py", "nexus.manifest.json"}
    /\ state.artifact_id = "a1"
    /\ project.swarm_state.code_files = state.code_files

-----------------------------------------------------------------------------
(* node_code applied to the provider responses of a bounded set.             *)

\* The records of a "files" list: with path and content, and with one of the
\* two missing.
CodeFileRecords ==
    [path : {"README.md", "main.py"}, content : {<<"run", "it">>, <<"print">>}]
        \cup {[path |-> "main.py"], [content |-> <<"print">>]}

\* The "files" lists of a Coder response: 0..MaxFiles records.
CodeFileLists == UNION { [1..n -> CodeFileRecords] : n \in 0..MaxFiles }

\* Text without braces that may surround the JSON object.
BraceFreeTexts == { <<>>, <<Tok("prose")>>, <<Tok("ws"), Tok("prose"), Tok("ws")>> }

\* The responses of a code model: an object with a files list between texts
\* without braces, the same after a text with a brace of its own, an object
\* without the key files, and text that is no JSON.
CodeRaws ==
    { pre \o Object([files |-> list]) \o post :
          pre \in BraceFreeTexts, post \in BraceFreeTexts, list \in CodeFileLists }
        \cup { <<Tok("prose"), Tok("{"), Tok("prose")>> \o Object([files |-> <<ReadmeFile>>]),
               Object([notes |-> <<>>]),
               <<Tok("scalar")>>,
               <<Tok("prose")>> }

\* The state node_code receives in the first pass.
CodeEntry ==
    LET s0 == InitialState(DefaultMaxIterations)
        s1 == node_research(s0, ChainReturn(_model_chains.research, 1, <<Tok("prose")>>)).state
    IN  node_plan(s1, ChainReturn(_model_chains.plan, 1, <<Tok("prose")>>)).state

CodeInit ==
    /\ keys = [k \in KeyNames |-> "key"]
    /\ state = CodeEntry
    /\ pc = "code_in"
    /\ node = "Coder"
    /\ ci = 1
    /\ last_err = NoErr
    /\ calls = <<>>
    /\ chain_out \in {ChainReturn(_model_chains.code, 1, raw) : raw \in CodeRaws}
    /\ exc = NoErr
    /\ events = <<>>
    /\ project = [status |-> "running", swarm_state |-> <<>>]
    /\ saves = <<>>
    /\ artifacts = <<>>
    /\ swarm = SwarmIdle
    /\ limiter = NewLimiter(1)
    /\ pipeline = PipelineIdle

\* node_code(state, ...) with its chain run ending with chain_out.
CodeApply ==
    /\ pc = "code_in"
    /\ LET res == node_code(state, chain_out) IN
       /\ state' = res.state
       /\ exc' = res.err
       /\ pc' = IF res.raised THEN "code_raised" ELSE "code_out"
    /\ UNCHANGED <<keys, node, ci, last_err, calls, chain_out, events, project, saves,
                   artifacts, others>>

CodeNext == CodeApply

CodeSpec == CodeInit /\ [][CodeNext]_vars

\* The response is a JSON object with a files list, with nothing but text
\* without braces before and after it.
ObjectInBraceFreeText ==
    LET out == chain_out.out IN
    \E k \in 2..(Len(out) - 1) :
        /\ out[k - 1].t = "{"
        /\ out[k].t = "members"
        /\ out[k + 1].t = "}"
        /\ "files" \in DOMAIN out[k].v
        /\ \A i \in 1..Len(out) \ {k - 1, k, k + 1} : out[i].t \in {"prose", "ws"}

\* The files list of the object in the response.
ResponseFiles ==
    LET out == chain_out.out
        k == CHOOSE k \in 1..Len(out) : out[k].t = "members"
    IN  out[k].v.files

\* The path-to-content mapping of the files list: of the records that have both
\* a path and a content, the last one of each path.
MappingOfResponseFiles ==
    LET list == ResponseFiles
        valid == {i \in 1..Len(list) :
                     "path" \in DOMAIN list[i] /\ "content" \in DOMAIN list[i]}
        last(q) == CHOOSE i \in valid :
                     list[i].path = q /\ \A j \in valid : list[j].path = q => j <= i
    IN  [q \in {list[i].path : i \in valid} |-> list[last(q)].content]

-----------------------------------------------------------------------------
(* The end of a run *)

\* The frames of the stream that carry a failure.
FailureFrames ==
    {i \in 1..Len(events) :
        \/ events[i].event = "error"
        \/ events[i].event = "status" /\ events[i].data.message = "failed"}

\* C31: a run that ends with the Reviewer's verdict review_passed = false (the
\* retry cap being exhausted) is packaged all the same: once the router has no
\* retry left the run goes on to store one artifact and to end as completed;
\* at the end the artifact event and the completed status are the last two
\* frames, the project is saved as completed, no frame carries a failure, and
\* the failed verdict is found in the manifest (the artifact's meta and its
\* nexus.manifest.json entry) and in the state, saved with the project.
C31_FailedVerdictIsStillPackaged ==
    /\ []((pc = "done" /\ ~ReviewPassed) =>
            /\ state.iterations >= state.max_iterations
            /\ Len(artifacts) = 1
            /\ artifacts[1].meta.review_passed = FALSE
            /\ artifacts[1].zip["nexus.manifest.json"] = <<artifacts[1].meta>>
            /\ project.status = "completed"
            /\ saves[Len(saves)] = "completed"
            /\ project.swarm_state = state
            /\ state.review_passed = FALSE
            /\ events[Len(events) - 1] =
                   sse("artifact", [artifact_id |-> artifacts[1].id,
                                    signed_url |-> state.artifact_signed_url])
            /\ events[Len(events)] =
                   sse("status", [message |-> "completed", project_id |-> ProjectId])
            /\ FailureFrames = {}
            /\ exc = NoErr)
    /\ (pc = "route" /\ ~ReviewPassed /\ state.iterations >= state.max_iterations)
           ~> (pc = "done" /\ ~ReviewPassed /\ project.status = "completed")

C31_Witness ==
    /\ pc = "done"
    /\ ~ReviewPassed
    /\ state.max_iterations = 2
    /\ state.iterations = 2
    /\ NodeStarts("Reviewer") = 3
    /\ Len(artifacts) = 1
    /\ project.status = "completed"

\* The frames of the stream that are artifact events.
ArtifactFrames == {i \in 1..Len(events) : events[i].event = "artifact"}

\* C32: the statuses saved for a request are running, one or more times, then
\* exactly one final status, completed or failed, saved when the stream ends and
\* matching its closing frame; the first frame emitted is the status
\* swarm_started, after the first running save; completed is saved only with an
\* artifact stored, whose reference is in the saved state; and the artifact
\* event comes right before the completed status, and in no other run.
C32_StatusSequence ==
    LET n == Len(saves)
        m == Len(events)
    IN  /\ \A i \in 1..(n - 1) : saves[i] = "running"
        /\ pc # "init" => n >= 1 /\ saves[1] = "running"
        /\ ~StreamOver => \A i \in 1..n : saves[i] = "running"
        /\ StreamOver =>
              /\ n >= 2
              /\ saves[n] \in {"completed", "failed"}
              /\ project.status = saves[n]
              /\ events[m] = sse("status", [message |-> saves[n], project_id |-> ProjectId])
        /\ events = <<>> <=> pc = "init"
        /\ m >= 1 => events[1] = sse("status", [message |-> "swarm_started",
                                                 project_id |-> ProjectId])
        /\ (n >= 1 /\ saves[n] = "completed") =>
              /\ Len(artifacts) = 1
              /\ project.swarm_state.artifact_id = artifacts[1].id
              /\ project.swarm_state.artifact_storage_path = artifacts[1].storage_path
              /\ ArtifactFrames = {m - 1}
        /\ (n = 0 \/ saves[n] # "completed") => ArtifactFrames = {} /\ artifacts = <<>>

C32_Witness ==
    /\ pc = "done"
    /\ saves = <<"running", "running", "running", "running", "running", "running",
                 "completed">>
    /\ events[Len(events) - 1].event = "artifact"
    /\ events[Len(events)].data.message = "completed"

\* C33: a stage that fails leaves the workflow state as it found it: in the step
\* in which the Researcher, Planner, Coder or Designer raises (its chain is
\* exhausted, its response does not parse, or the file list is empty), the
\* state the stage hands back is the state it was given, so the timeline has no
\* new entry and plan, code_files, image_prompts, review_passed and
\* review_notes (and which of them are set) are unchanged; that state is the one
\* saved as failed.  The Reviewer never fails.
C33_FailedStageLeavesStateUnchanged ==
    [][(pc = "chain" /\ pc' = "failed") =>
          LET res == RunNode(node, state, chain_out') IN
          /\ node \in {"Researcher", "Planner", "Coder", "Designer"}
          /\ res.raised
          /\ exc' = res.err
          /\ res.state = state
          /\ state'.timeline = state.timeline
          /\ \A f \in {"plan", "code_files", "image_prompts", "review_passed",
                       "review_notes"} :
                 /\ Has(state', f) <=> Has(state, f)
                 /\ state'[f] = state[f]
          /\ state' = state
          /\ project'.swarm_state = state]_vars

C33_Witness ==
    /\ pc = "failed"
    /\ node = "Coder"
    /\ exc = RuntimeError(<<"Coder returned no files.">>)
    /\ state.iterations = 1
    /\ Len(state.timeline) = 6
    /\ state.timeline[6].node = "Planner"
    /\ DOMAIN state.code_files = {"app.py", "main.py"}
    /\ project.swarm_state = state

-----------------------------------------------------------------------------
(* The Reviewer's notes and its verdict *)

\* The deterministic checks of the Reviewer produced a note.
LocalNote == ~HasReadme \/ HasDenied

\* The claim as the specification words it: the notes are OK only with a passed
\* review, and Needs fixes only with a failed review without any note.
C39_NotesFollowVerdict ==
    pc = "review_out" =>
        /\ state.review_notes # <<>>
        /\ state.review_notes = <<"OK">> => state.review_passed
        /\ state.review_notes = <<"Needs fixes">> =>
               (~state.review_passed /\ ~LocalNote /\ LlmNote = <<>>)

\* C39: after every Reviewer execution review_notes is not empty; when neither
\* the deterministic checks nor the LLM gave a note it is the placeholder of the
\* verdict, OK for a passed review and Needs fixes for a failed one; and it is
\* OK with a failed review, or Needs fixes with a note given, only when that text
\* is the note of the LLM itself and the deterministic checks gave none.
C39_NotesConsistentWithVerdict ==
    pc = "review_out" =>
        /\ state.review_notes # <<>>
        /\ (~LocalNote /\ LlmNote = <<>>) =>
               state.review_notes =
                   IF state.review_passed THEN <<"OK">> ELSE <<"Needs fixes">>
        /\ state.review_notes = <<"OK">> =>
               \/ state.review_passed /\ ~LocalNote /\ LlmNote = <<>>
               \/ ~LocalNote /\ LlmNote = <<"OK">>
        /\ state.review_notes = <<"Needs fixes">> =>
               \/ ~state.review_passed /\ ~LocalNote /\ LlmNote = <<>>
               \/ ~LocalNote /\ LlmNote = <<"Needs fixes">>

C39_Witness ==
    /\ pc = "review_out"
    /\ HasReadme
    /\ ~HasDenied
    /\ chain_out.out = Object([pass |-> FALSE, notes |-> <<" ">>])
    /\ ~state.review_passed
    /\ state.review_notes = <<"Needs fixes">>

-----------------------------------------------------------------------------
(* HybridSwarm.vibe in both modes *)

\* The lattice energies (in tenths) on both sides of the thresholds of _route.
Energies == {2, 3, 7, 8}

HybridNext ==
    \/ \E tier \in {"free", "pro"}, mode \in {"auto", "quality"}, e \in Energies :
          vibe(tier, mode, e)
    \/ \E p \in {"groq", "openrouter", "gemini"} :
          \E r \in {CallOk(p), CallError("error 500")} : CallFinishes(p, r)
    \/ SwarmReturns
    \/ \E p \in {"groq", "openrouter", "gemini"} :
          \E r \in {CallOk(p), CallError("error 500")} : SingleReturns(p, r)

HybridSpec == SwarmInit /\ [][HybridNext]_vars

\* C37: a provider without a key is never sent a request, in swarm mode and in
\* single mode alike: every request sent went to a provider whose key is set,
\* and a call in flight is a call to such a provider; when no provider has a
\* key the call returns at once, with the error No providers available in
\* swarm mode and No API keys configured in single mode, no request having
\* been sent and no call made.
C37_KeylessProviderNeverCalled ==
    /\ \A i \in 1..Len(swarm.posts) : swarm.posts[i] \in Configured
    /\ \A i \in 1..Len(swarm.tasks) : swarm.tasks[i] \in Configured
    /\ (Configured = {} /\ swarm.pc # "idle") =>
           /\ swarm.pc = "returned"
           /\ swarm.posts = <<>>
           /\ swarm.tasks = <<>>
           /\ swarm.arrived = <<>>
           /\ swarm.mode \in {"swarm", "single"}
           /\ swarm.out = CallError(IF swarm.mode = "swarm" THEN "No providers available"
                                    ELSE "No API keys configured")

C37_Witness ==
    /\ swarm.pc = "returned"
    /\ swarm.mode = "single"
    /\ Configured = {}
    /\ swarm.out = CallError("No API keys configured")
    /\ swarm.posts = <<>>

-----------------------------------------------------------------------------
(* The queues of the rate limiter *)

\* The hits of a queue that are not older than the window at time t.
Unexpired(q, t) == SelectSeq(q, LAMBDA h : t - h <= window_sec)

\* C38: a request rejected by the rate limiter records no hit: in the step that
\* answers 429 the queue of the key is left holding its earlier hits that have
\* not expired (rpm of them, none added); the queue of a key never holds more
\* than rpm hits; and a check on one key leaves the queue of every other key
\* as it was.
C38_RejectedRequestRecordsNoHit ==
    /\ [](\A key \in ClientKeys : Len(limiter.hits[key]) <= limiter.rpm)
    /\ [][Len(limiter'.log) = Len(limiter.log) + 1 =>
            LET e == limiter'.log[Len(limiter'.log)] IN
            /\ \A k \in ClientKeys \ {e.key} : limiter'.hits[k] = limiter.hits[k]
            /\ e.status = 429 =>
                  /\ limiter'.hits[e.key] = Unexpired(limiter.hits[e.key], e.at)
                  /\ Len(limiter'.hits[e.key]) = limiter.rpm
                  /\ \A i \in 1..Len(limiter'.hits[e.key]) :
                         limiter'.hits[e.key][i] \in
                             {limiter.hits[e.key][j] : j \in 1..Len(limiter.hits[e.key])}
            /\ e.status # 429 =>
                  limiter'.hits[e.key] = Append(Unexpired(limiter.hits[e.key], e.at), e.at)]_vars

C38_Witness ==
    /\ limiter.rpm = 2
    /\ Len(limiter.log) = 4
    /\ limiter.log[1] = [key |-> "unknown", at |-> 0, status |-> 200]
    /\ limiter.log[2] = [key |-> "10.0.0.1", at |-> 29, status |-> 200]
    /\ limiter.log[3] = [key |-> "unknown", at |-> 29, status |-> 200]
    /\ limiter.log[4] = [key |-> "unknown", at |-> 60, status |-> 429]
    /\ limiter.hits["unknown"] = <<0, 29>>
    /\ limiter.hits["10.0.0.1"] = <<29>>

-----------------------------------------------------------------------------
(* The GenerationPipeline and the AIRouter on their own *)

\* What a provider answers an agent: a text, and for the reviewer a text with
\* or without the word pass.
AgentResponses(n) ==
    IF n = "review" THEN {<<"Verdict:", "pass">>, <<"FAIL">>} ELSE {<<"text">>}

PipelineInit ==
    /\ WorkflowIdle
    /\ swarm = SwarmIdle
    /\ limiter = NewLimiter(1)
    /\ pipeline = PipelineIdle

PipelineNext ==
    \/ Generate
    \/ StepStarts
    \/ ProviderFails("timeout")
    \/ \E out \in AgentResponses(pipeline.node) : ProviderReturns(out)
    \/ ProvidersExhausted
    \/ ShouldReplan
    \/ GenerateReturns

PipelineSpec == PipelineInit /\ [][PipelineNext]_vars

\* The model preferences a caller may pass: none, the three the agents use, one
\* that matches two providers, one that matches the last, one that matches none.
Preferences ==
    {<<>>, <<"claude">>, <<"groq">>, <<"gemini">>, <<"llama">>, <<"ollama">>, <<"gpt">>}

\* AIRouter.call(messages, model_preference) called on its own.
RouterInit ==
    /\ WorkflowIdle
    /\ swarm = SwarmIdle
    /\ limiter = NewLimiter(1)
    /\ pipeline \in {[PipelineIdle EXCEPT !.pc = "calling", !.node = "none",
                                          !.call = RouterCall(pref)] :
                        pref \in Preferences}

RouterNext ==
    \/ \E kind \in {"timeout", "401"} : ProviderFails(kind)
    \/ ProviderReturns(<<"text">>)
    \/ ProvidersExhausted

RouterSpec == RouterInit /\ [][RouterNext]_vars

\* The position of a provider in the configured list.
ConfiguredIndex(q) == CHOOSE i \in 1..Len(AIRouter_providers) : AIRouter_providers[i] = q

\* The provider matches the model preference of the call in progress.
Preferred(q) ==
    /\ pipeline.call.model_preference # <<>>
    /\ InText(pipeline.call.model_preference, q)

\* C36: AIRouter.call tries a permutation of the configured providers: every
\* provider once, those matching model_preference before the others, each group
\* in configured order (the configured order itself without a preference); the
\* providers tried so far are the first of that order, each tried once; the
\* first success ends the call with that provider as the last one tried; and
\* the call raises only when all have been tried and failed, with the failure of
\* the last provider of the order in its message.
C36_RouterTriesPermutation ==
    LET c == pipeline.call
        order == c.providers_to_try
        n == Len(order)
    IN  /\ n = Len(AIRouter_providers)
        /\ {order[i] : i \in 1..n} = {AIRouter_providers[i] : i \in 1..n}
        /\ \A a, b \in 1..n : a < b =>
               /\ order[a] # order[b]
               /\ ~(Preferred(order[b]) /\ ~Preferred(order[a]))
               /\ (Preferred(order[a]) <=> Preferred(order[b])) =>
                      ConfiguredIndex(order[a]) < ConfiguredIndex(order[b])
        /\ c.model_preference = <<>> => order = AIRouter_providers
        /\ Len(c.tried) <= n
        /\ c.tried = SubSeq(order, 1, Len(c.tried))
        /\ c.status = "running" => pipeline.pc = "calling" /\ Len(c.tried) = c.i - 1
        /\ c.status = "returned" =>
               /\ Len(c.tried) = c.i
               /\ c.response = <<"text">>
               /\ pipeline.pc = "called"
               /\ ~ENABLED RouterNext
        /\ c.status = "raised" =>
               /\ c.tried = order
               /\ \E kind \in {"timeout", "401"} :
                      c.last_error = ProviderError(order[n], kind)
               /\ pipeline.pc = "called"
               /\ ~ENABLED RouterNext
        /\ c.status \in {"running", "returned", "raised"}

C36_Witness ==
    /\ pipeline.call.status = "raised"
    /\ pipeline.call.model_preference = <<"llama">>
    /\ pipeline.call.tried =
           <<AIRouter_providers[1], AIRouter_providers[4], AIRouter_providers[2],
             AIRouter_providers[3]>>
    /\ pipeline.call.last_error = ProviderError(AIRouter_providers[3], "401")

\* The result recorded for the review has passed = true.
RecordedPassed ==
    "review" \in pipeline.state.metadata.has /\ pipeline.state.metadata.passed

\* C34: in the 6-stage pipeline the export stage, and with it END, is reached
\* only after a review whose recorded result has passed = true; from the
\* conditional edge after review the graph goes to export when the recorded
\* result has passed = true and back to plan in every other case (a failed
\* verdict, no result recorded, or the result of an earlier review left by a
\* review that raised); and the decision does not depend on how many reviews
\* were made: the back-edge has no cap.
C34_ExportOnlyAfterPassedReview ==
    /\ [](pipeline.node \in {"export", END} =>
             /\ RecordedPassed
             /\ pipeline.reviews >= 1
             /\ pipeline.state.current_step \in {"export", "complete"})
    /\ [](pipeline.pc = "route" =>
             \A r \in 0..(MaxReviews + 1) :
                 _should_replan(pipeline.state, r) =
                     IF RecordedPassed THEN "export" ELSE "replan")
    /\ [][pipeline.pc = "route" /\ pipeline' # pipeline =>
             /\ pipeline'.pc = "step"
             /\ pipeline'.node = IF RecordedPassed THEN "export" ELSE "plan"
             /\ pipeline'.state = pipeline.state]_vars

C34_Witness ==
    /\ pipeline.pc = "returned"
    /\ pipeline.node = END
    /\ pipeline.reviews = 3
    /\ RecordedPassed
    /\ pipeline.state.metadata.review = <<"Verdict:", "pass">>
    /\ pipeline.state.errors = <<>>
    /\ pipeline.result.current_step = "complete"

\* The step of the current node is over in this transition.
StepEnds ==
    /\ pipeline.pc \in {"step", "calling"}
    /\ pipeline'.pc \in {"step", "route", "end"}

\* The agent of the step raised: its prompt read a result that is not there, or
\* every provider of its router call failed.
AgentRaised ==
    \/ pipeline.pc = "step"
    \/ pipeline.pc = "calling" /\ pipeline.call.i > Len(pipeline.call.providers_to_try)

\* C35: in the 6-stage pipeline a stage failure never stops the run: a step
\* whose agent raises appends exactly one message (with the prefix of the step)
\* to errors and leaves metadata and current_step as they were, a step whose
\* agent returns appends none, and in both cases the graph goes on along the
\* same edge (the next stage, the conditional edge after review, END after
\* export); a run that is not over can always go on (short of the bound on the
\* reviews followed); and the result of generate has success = true exactly
\* when errors is empty at the end.
C35_StageFailureNeverStops ==
    /\ [][StepEnds =>
            LET n == pipeline.node
                s == pipeline.state
                t == pipeline'.state
            IN  /\ IF AgentRaised
                   THEN /\ Len(t.errors) = Len(s.errors) + 1
                        /\ SubSeq(t.errors, 1, Len(s.errors)) = s.errors
                        /\ t.errors[Len(t.errors)][1] = Steps[n].failed
                        /\ t.metadata = s.metadata
                        /\ t.current_step = s.current_step
                   ELSE /\ t.errors = s.errors
                        /\ n \in t.metadata.has
                /\ pipeline'.pc = IF n = "review" THEN "route"
                                  ELSE IF n = "export" THEN "end" ELSE "step"
                /\ pipeline'.node = IF n = "review" THEN n ELSE PipelineEdge[n]]_vars
    /\ [](pipeline.pc \notin {"idle", "returned"} =>
             \/ ENABLED PipelineNext
             \/ pipeline.pc = "route" /\ pipeline.reviews = MaxReviews)
    /\ [](pipeline.pc = "returned" =>
             /\ pipeline.result.success <=> (pipeline.state.errors = <<>>)
             /\ pipeline.result.errors = pipeline.state.errors
             /\ pipeline.result.current_step = pipeline.state.current_step)

C35_Witness ==
    /\ pipeline.pc = "returned"
    /\ ~pipeline.result.success
    /\ pipeline.result.current_step = "complete"
    /\ Len(pipeline.state.errors) = 2
    /\ pipeline.state.errors[1] =
           <<"Design failed: ">>
               \o AllProvidersFailed(ProviderError(AIRouter_providers[4], "timeout"))
    /\ pipeline.state.errors[2] = <<"Review failed: ", "'design'">>
    /\ pipeline.reviews = 2

====
